---- MODULE Spec2Model ----
(***************************************************************************)
(* Model of the POS front end's client state: the zustand store            *)
(* (src/lib/stores/pos-store.ts) with its cart, settings and               *)
(* last-sold-price cache, the UI handlers that drive it, the cart summary, *)
(* and the staleness-aware catalog read (src/lib/hooks/use-cached-data.ts, *)
(* src/lib/database.ts).                                                   *)
(*                                                                         *)
(* JavaScript numbers that carry money are modelled as exact rationals     *)
(* <<numerator, denominator>> in lowest terms; <<0, 0>> stands for         *)
(* `undefined`.  Floating-point rounding is outside the model.             *)
(***************************************************************************)
EXTENDS Integers, Sequences, FiniteSets, TLC

VARIABLES
    cart,                \* POSState.cart: sequence of cart lines
    selectedCustomer,    \* POSState.selectedCustomer
    taxMode,             \* POSState.taxMode
    selectedBranch,      \* POSState.selectedBranch (its id, or NoBranch)
    pricingStrategy,     \* POSState.pricingStrategy
    lastSoldPrices,      \* POSState.lastSoldPrices: key -> LastSoldPrice
    priceFetchingStatus, \* POSState.priceFetchingStatus: product id -> status
    priceFetches,        \* last-sold-price fetches in flight (product-grid.tsx)
    saveRequests,        \* custom-price saves in flight (addToCart's fetch)
    invoices,            \* POST /api/invoices requests in flight (handleCheckout)
    lastOp,              \* the last store operation and its arguments
    mirror,              \* IndexedDB 'products' store: set of product ids
    lastSync,            \* metadata.lastSync of 'products' (0: no metadata)
    now,                 \* Date.now()
    syncs,               \* catalog network requests in flight
    read,                \* per query key: the queryFn invocation in progress
    lastRead,            \* decision and outcome of the last queryFn invocation
    queryData,           \* per query key: the data React Query holds
    syncStatus,          \* syncStatus of useCachedProducts
    delivered,           \* per caller: what its last read resolved to
    lastSyncDone,        \* outcome of the last backgroundSyncProducts
    enableBackgroundSync, \* config.enableBackgroundSync of useCachedProducts
    mounted,             \* useCachedProducts is mounted: its interval is set
    checking,            \* interval callbacks awaiting cacheManager.isStale
    query,               \* the query argument of useDebouncedProductSearch
    debouncedQuery,      \* useDebounce's debouncedValue
    handler,             \* useDebounce's pending setTimeout, or NoTimer
    unchangedFor,        \* time for which query has kept its value
    allProducts,         \* POSState.products as useProducts() delivers it
    scheduled,           \* searchCallbacks handed to requestIdleCallback
    products,            \* useDebouncedProductSearch's products state
    isLoading,           \* useDebouncedProductSearch's isLoading state
    lastScan             \* the last call of searchIndex and what it did

storeVars == <<cart, selectedCustomer, taxMode, selectedBranch, pricingStrategy,
               lastSoldPrices, priceFetchingStatus, priceFetches, saveRequests,
               invoices, lastOp>>
mirrorVars == <<mirror, lastSync, now, syncs, read, lastRead, queryData,
                syncStatus, delivered, lastSyncDone, enableBackgroundSync,
                mounted, checking>>
searchVars == <<query, debouncedQuery, handler, unchangedFor, allProducts,
                scheduled, products, isLoading, lastScan>>
vars == <<cart, selectedCustomer, taxMode, selectedBranch, pricingStrategy,
          lastSoldPrices, priceFetchingStatus, priceFetches, saveRequests,
          invoices, lastOp, mirror, lastSync, now, syncs, read, lastRead, queryData,
          syncStatus, delivered, lastSyncDone, enableBackgroundSync,
          mounted, checking,
          query, debouncedQuery, handler, unchangedFor, allProducts,
          scheduled, products, isLoading, lastScan>>

----------------------------------------------------------------------------
(* Bounds of the model *)

MaxCart == 2
MaxQty == 2
MaxFetches == 1
MaxTime == 7
MaxSyncs == 2

----------------------------------------------------------------------------
(* Numbers *)

RECURSIVE GCD(_, _)
GCD(a, b) == IF b = 0 THEN a ELSE GCD(b, a % b)

Abs(x) == IF x < 0 THEN -x ELSE x

Rat(n, d) == LET g == GCD(Abs(n), d) IN <<n \div g, d \div g>>

R(n) == <<n, 1>>

RMul(a, b) == Rat(a[1] * b[1], a[2] * b[2])

RDiv(a, b) == Rat(a[1] * b[2], a[2] * b[1])

RAdd(a, b) == Rat(a[1] * b[2] + b[1] * a[2], a[2] * b[2])

RSub(a, b) == Rat(a[1] * b[2] - b[1] * a[2], a[2] * b[2])

RAbs(a) == <<Abs(a[1]), a[2]>>

RGt(a, b) == a[1] * b[2] > b[1] * a[2]

Undefined == <<0, 0>>

\* JavaScript truthiness of a number | undefined
Truthy(x) == x # Undefined /\ x[1] # 0

\* a || b
OrElse(a, b) == IF Truthy(a) THEN a ELSE b

----------------------------------------------------------------------------
(* Data of the store *)

\* 1 + TAX_RATE, the literal 1.15 of the price conversions
TaxFactor == <<23, 20>>

\* the 0.01 tolerance of the custom-price save
SaveTolerance == <<1, 100>>

TaxModes == {"inclusive", "exclusive"}

Strategies == {"default", "lastSoldPrice"}

\* selectedBranch: null
NoBranch == "null"

Branches == {"B1", "B2"}

\* selectedCustomer: null
NoCustomer == "null"

Customers == {"K1"}

\* lastSoldDate: undefined
NoDate == "undefined"

\* Product records as the catalog delivers them (piecePrice and cartonPrice
\* are optional).
Products ==
    { [id |-> "P1", price |-> R(10), piecePrice |-> Undefined,
       cartonPrice |-> R(100)],
      [id |-> "P2", price |-> R(20), piecePrice |-> R(23),
       cartonPrice |-> Undefined] }

ProductIds == {p.id : p \in Products}

\* 'PCS', or product.storedUnit || 'CTN' (a stored unit such as C12P)
Units == {"PCS", "CTN", "C12P"}

\* The customPrice argument: undefined for a plain add, else the positive
\* number the unit selector dialog parsed.
CustomPrices == {Undefined, R(10), R(12)}

\* The quantity argument: a positive integer (default 1).
Quantities == {1, 2}

\* Rows of the remote pos_last_sold_prices table, as the last-sold-prices
\* route returns them.
PriceRows ==
    { [product_id |-> "P1", branch_id |-> "B1", unit |-> "PCS",
       price |-> R(23), created_at |-> "d1", tax_mode |-> "inclusive"],
      [product_id |-> "P1", branch_id |-> "B1", unit |-> "CTN",
       price |-> R(80), created_at |-> "d2", tax_mode |-> "exclusive"],
      [product_id |-> "P2", branch_id |-> "B2", unit |-> "PCS",
       price |-> R(46), created_at |-> "d3", tax_mode |-> "inclusive"] }

\* `${productId}_${branchId}_${unit}`
Key(productId, branchId, unit) ==
    productId \o "_" \o branchId \o "_" \o unit

EmptyMap == [k \in {} |-> Undefined]

\* new Map(m).set(k, v)
MapSet(m, k, v) == [x \in DOMAIN m \cup {k} |-> IF x = k THEN v ELSE m[x]]

\* lastOp: the operation, its arguments, and the number of cart lines it
\* matched (merged into, updated or removed)
NoOp ==
    [op |-> "init", id |-> "", unit |-> "", qty |-> 0, cp |-> Undefined,
     hits |-> 0]

Op(name, id, unit, qty, cp, hits) ==
    [op |-> name, id |-> id, unit |-> unit, qty |-> qty, cp |-> cp,
     hits |-> hits]

----------------------------------------------------------------------------
(* addToCart *)

\* Mutant: the line is matched on product and unit alone
MatchesLine_IgnoringPrice(item, product, unit, customPrice) ==
    item.id = product.id /\ item.unit = unit

\* Mutant: only plain additions merge
MatchesLine_PlainOnly(item, product, unit, customPrice) ==
    /\ item.id = product.id
    /\ item.unit = unit
    /\ ~Truthy(customPrice)
    /\ ~Truthy(item.customPrice)

\* The predicate of state.cart.find / state.cart.map in addToCart
MatchesLine(item, product, unit, customPrice) ==
    /\ item.id = product.id
    /\ item.unit = unit
    /\ IF Truthy(customPrice)
       THEN item.customPrice = customPrice
       ELSE ~Truthy(item.customPrice)

\* Mutant: the base price whatever the unit
CatalogPrice_BaseOnly(product, unit) == product.price

\* Catalog price by unit
CatalogPrice(product, unit) ==
    IF unit = "CTN" /\ Truthy(product.cartonPrice) THEN product.cartonPrice
    ELSE IF unit = "PCS" /\ Truthy(product.piecePrice) THEN product.piecePrice
    ELSE product.price

\* "Apply tax adjustment if needed"
TaxAdjust(price, mode) ==
    IF mode = "inclusive" THEN RMul(price, TaxFactor) ELSE price

\* Mutant: a last-sold price is converted like a catalog price
LastSoldAdjust_AsCatalog(entry, mode) ==
    IF mode = "inclusive" THEN RMul(entry.price, TaxFactor) ELSE entry.price

\* "Adjust price for current tax mode if different from when it was sold"
LastSoldAdjust(entry, mode) ==
    IF entry.taxMode # mode
    THEN IF entry.taxMode = "inclusive" /\ mode = "exclusive"
         THEN RDiv(entry.price, TaxFactor)
         ELSE IF entry.taxMode = "exclusive" /\ mode = "inclusive"
              THEN RMul(entry.price, TaxFactor)
              ELSE entry.price
    ELSE entry.price

\* get().lastSoldPrices.get(key) is present
HasLastSoldPrice(cache, productId, branchId, unit) ==
    Key(productId, branchId, unit) \in DOMAIN cache

GetLastSoldPrice(cache, productId, branchId, unit) ==
    cache[Key(productId, branchId, unit)]

\* finalPrice, pricingSource and lastSoldDate of a new line
LinePricing(product, unit, customPrice, strategy, branch, cache, mode) ==
    IF Truthy(customPrice)
    THEN [price |-> OrElse(customPrice, product.price),
          pricingSource |-> "default", lastSoldDate |-> NoDate]
    ELSE IF strategy = "lastSoldPrice" /\ branch # NoBranch
              /\ HasLastSoldPrice(cache, product.id, branch, unit)
         THEN LET e == GetLastSoldPrice(cache, product.id, branch, unit)
              IN  [price |-> LastSoldAdjust(e, mode),
                   pricingSource |-> "lastSold", lastSoldDate |-> e.date]
         ELSE [price |-> TaxAdjust(CatalogPrice(product, unit), mode),
               pricingSource |-> "default", lastSoldDate |-> NoDate]

NewLine_OnePiece(product, quantity, unit, customPrice, pr) ==
    [id |-> product.id, price |-> pr.price, qty |-> 1, unit |-> unit,
     customPrice |-> customPrice, originalPrice |-> pr.price,
     pricingSource |-> pr.pricingSource, lastSoldDate |-> pr.lastSoldDate]

\* The object appended to the cart
NewLine(product, quantity, unit, customPrice, pr) ==
    [id |-> product.id, price |-> pr.price, qty |-> quantity, unit |-> unit,
     customPrice |-> customPrice, originalPrice |-> pr.price,
     pricingSource |-> pr.pricingSource, lastSoldDate |-> pr.lastSoldDate]

\* const defaultPrice = finalPrice - (customPrice || 0) + (customPrice || 0)
SaveDefaultPrice(finalPrice, customPrice) ==
    RAdd(RSub(finalPrice, OrElse(customPrice, R(0))), OrElse(customPrice, R(0)))

\* The guard of the background save
SavesCustomPrice(finalPrice, customPrice, branch) ==
    /\ Truthy(customPrice)
    /\ branch # NoBranch
    /\ RGt(RAbs(RSub(customPrice, SaveDefaultPrice(finalPrice, customPrice))),
           SaveTolerance)

SaveBody(product, unit, customPrice, branch, mode) ==
    [product_id |-> product.id, branch_id |-> branch, unit |-> unit,
     price |-> customPrice, tax_mode |-> mode]

\* Mutant: the merge reprices the line
MergedLine_Repriced(item, quantity) ==
    [item EXCEPT !.qty = @ + quantity, !.price = RMul(@, TaxFactor)]

\* { ...item, qty: item.qty + quantity }
MergedLine(item, quantity) == [item EXCEPT !.qty = @ + quantity]

addToCart(product, quantity, unit, customPrice) ==
    LET existing == {i \in 1..Len(cart) :
                        MatchesLine(cart[i], product, unit, customPrice)}
        pr == LinePricing(product, unit, customPrice, pricingStrategy,
                          selectedBranch, lastSoldPrices, taxMode)
    IN  /\ IF existing # {}
           THEN /\ cart' = [i \in 1..Len(cart) |->
                              IF MatchesLine(cart[i], product, unit, customPrice)
                              THEN MergedLine(cart[i], quantity)
                              ELSE cart[i]]
                /\ saveRequests' = saveRequests
           ELSE /\ cart' = Append(cart,
                                  NewLine(product, quantity, unit, customPrice, pr))
                /\ saveRequests' =
                     IF SavesCustomPrice(pr.price, customPrice, selectedBranch)
                     THEN Append(saveRequests,
                                 SaveBody(product, unit, customPrice,
                                          selectedBranch, taxMode))
                     ELSE saveRequests
        /\ lastOp' = Op("addToCart", product.id, unit, quantity, customPrice,
                        Cardinality(existing))
        /\ UNCHANGED <<selectedCustomer, taxMode, selectedBranch,
                       pricingStrategy, lastSoldPrices, priceFetchingStatus,
                       priceFetches>>
        /\ UNCHANGED invoices
        /\ UNCHANGED <<mirrorVars, searchVars>>

----------------------------------------------------------------------------
(* updateCartItem, removeFromCart, clearCart and the cart UI's handlers *)

\* state.cart.map(item => item.id === id ? { ...item, ...updates } : item)
\* with updates = { qty }
LinesOf(c, id) == {i \in 1..Len(c) : c[i].id = id}

UpdatedCart(c, id, qty) ==
    [i \in 1..Len(c) |-> IF c[i].id = id THEN [c[i] EXCEPT !.qty = qty]
                         ELSE c[i]]

updateCartItem(id, qty) ==
    /\ cart' = UpdatedCart(cart, id, qty)
    /\ UNCHANGED <<selectedCustomer, taxMode, selectedBranch, pricingStrategy,
                   lastSoldPrices, priceFetchingStatus, priceFetches,
                   saveRequests>>
    /\ UNCHANGED invoices
    /\ UNCHANGED <<mirrorVars, searchVars>>

Max(a, b) == IF a >= b THEN a ELSE b

\* Mutant: the minus button without its floor
MinusQuantity_NoFloor(item) == item.qty - 1

\* The minus button of the prop-driven CartSidebar:
\* onUpdateQuantity(item.id, item.unit, Math.max(1, item.qty - 1))
MinusQuantity(item) == Max(1, item.qty - 1)

\* The plus button: onUpdateQuantity(item.id, item.unit, item.qty + 1)
PlusQuantity(item) == item.qty + 1

\* CartSidebarWrapper.handleUpdateQuantity(id, unit, quantity), called by
\* the buttons of row i
SidebarMinus(i) ==
    /\ i \in 1..Len(cart)
    /\ updateCartItem(cart[i].id, MinusQuantity(cart[i]))
    /\ lastOp' = Op("SidebarMinus", cart[i].id, cart[i].unit,
                    MinusQuantity(cart[i]), Undefined,
                    Cardinality(LinesOf(cart, cart[i].id)))

SidebarPlus(i) ==
    /\ i \in 1..Len(cart)
    /\ updateCartItem(cart[i].id, PlusQuantity(cart[i]))
    /\ lastOp' = Op("SidebarPlus", cart[i].id, cart[i].unit,
                    PlusQuantity(cart[i]), Undefined,
                    Cardinality(LinesOf(cart, cart[i].id)))

\* cart.find(i => i.id === id && i.unit === unit): the first such line
FindLine(c, id, unit) ==
    LET hits == {i \in 1..Len(c) : c[i].id = id /\ c[i].unit = unit}
    IN  CHOOSE i \in hits : \A j \in hits : i <= j

\* Math.max(1, item.qty + delta)
DeltaQuantity(item, delta) == Max(1, item.qty + delta)

\* handleUpdateQuantity(id, unit, delta) of the store-connected CartSidebar
\* and of FloatingCart, called with delta -1 or 1 by the buttons of row i
HandleUpdateQuantity(i, delta) ==
    /\ i \in 1..Len(cart)
    /\ LET item == cart[FindLine(cart, cart[i].id, cart[i].unit)]
           newQty == DeltaQuantity(item, delta)
       IN  /\ updateCartItem(cart[i].id, newQty)
           /\ lastOp' = Op("HandleUpdateQuantity", cart[i].id, cart[i].unit,
                           newQty, Undefined,
                           Cardinality(LinesOf(cart, cart[i].id)))

\* Mutant: every line of the product is removed
RemovedCart_ById(c, id, unit) == SelectSeq(c, LAMBDA item : item.id # id)

\* state.cart.filter(item => !(item.id === id && item.unit === unit))
RemovedCart(c, id, unit) ==
    SelectSeq(c, LAMBDA item : ~(item.id = id /\ item.unit = unit))

removeFromCart(id, unit) ==
    /\ cart' = RemovedCart(cart, id, unit)
    /\ lastOp' = Op("removeFromCart", id, unit, 0, Undefined,
                    Len(cart) - Len(RemovedCart(cart, id, unit)))
    /\ UNCHANGED <<selectedCustomer, taxMode, selectedBranch, pricingStrategy,
                   lastSoldPrices, priceFetchingStatus, priceFetches,
                   saveRequests>>
    /\ UNCHANGED invoices
    /\ UNCHANGED <<mirrorVars, searchVars>>

clearCart_KeepingCustomer ==
    /\ cart' = <<>>
    /\ lastOp' = Op("clearCart", "", "", 0, Undefined, Len(cart))
    /\ UNCHANGED <<selectedCustomer, taxMode, selectedBranch, pricingStrategy,
                   lastSoldPrices, priceFetchingStatus, priceFetches,
                   saveRequests>>
    /\ UNCHANGED invoices
    /\ UNCHANGED <<mirrorVars, searchVars>>

\* clearCart: set({ cart: [], selectedCustomer: null })
clearCart ==
    /\ cart' = <<>>
    /\ selectedCustomer' = NoCustomer
    /\ lastOp' = Op("clearCart", "", "", 0, Undefined, Len(cart))
    /\ UNCHANGED <<taxMode, selectedBranch, pricingStrategy, lastSoldPrices,
                   priceFetchingStatus, priceFetches, saveRequests>>
    /\ UNCHANGED invoices
    /\ UNCHANGED <<mirrorVars, searchVars>>

----------------------------------------------------------------------------
(* The cart summary *)

\* const TAX_RATE = 0.15
TAX_RATE == <<15, 100>>

\* cart.reduce((total, item) => total + item.qty, 0)
RECURSIVE ReduceQty(_, _)
ReduceQty(c, total) ==
    IF c = <<>> THEN total ELSE ReduceQty(Tail(c), total + Head(c).qty)

\* cart.reduce((total, item) => total + (item.price * item.qty), 0)
RECURSIVE ReducePrice(_, _)
ReducePrice(c, total) ==
    IF c = <<>> THEN total
    ELSE ReducePrice(Tail(c),
                     RAdd(total, RMul(Head(c).price, R(Head(c).qty))))

\* Mutant: the tax is added to the total in either mode
useCartSummary_AlwaysAddsTax(c, mode) ==
    LET subtotal == ReducePrice(c, R(0))
        tax == IF mode = "inclusive"
               THEN RMul(subtotal, RDiv(TAX_RATE, RAdd(R(1), TAX_RATE)))
               ELSE RMul(subtotal, TAX_RATE)
    IN  [cartCount |-> ReduceQty(c, 0), subtotal |-> subtotal, tax |-> tax,
         total |-> RAdd(subtotal, tax), taxMode |-> mode]

useCartSummary(c, mode) ==
    LET cartCount == ReduceQty(c, 0)
        subtotal == ReducePrice(c, R(0))
        tax == IF mode = "inclusive"
               THEN RMul(subtotal, RDiv(TAX_RATE, RAdd(R(1), TAX_RATE)))
               ELSE RMul(subtotal, TAX_RATE)
        total == IF mode = "inclusive" THEN subtotal ELSE RAdd(subtotal, tax)
    IN  [cartCount |-> cartCount, subtotal |-> subtotal, tax |-> tax,
         total |-> total, taxMode |-> mode]

\* The same four values as FloatingCart computes them on every render
FloatingCartSummary(c, mode) ==
    LET cartCount == ReduceQty(c, 0)
        subtotal == ReducePrice(c, R(0))
        tax == IF mode = "inclusive"
               THEN RMul(subtotal, RDiv(TAX_RATE, RAdd(R(1), TAX_RATE)))
               ELSE RMul(subtotal, TAX_RATE)
        total == IF mode = "inclusive" THEN subtotal ELSE RAdd(subtotal, tax)
    IN  [cartCount |-> cartCount, subtotal |-> subtotal, tax |-> tax,
         total |-> total]

----------------------------------------------------------------------------
(* Settings *)

setSelectedCustomer(customerId) ==
    /\ selectedCustomer' = customerId
    /\ lastOp' = Op("setSelectedCustomer", customerId, "", 0, Undefined, 0)
    /\ UNCHANGED <<cart, taxMode, selectedBranch, pricingStrategy,
                   lastSoldPrices, priceFetchingStatus, priceFetches,
                   saveRequests>>
    /\ UNCHANGED invoices
    /\ UNCHANGED <<mirrorVars, searchVars>>

\* Mutant: the change of mode converts the prices of the lines
setTaxMode_Repricing(mode) ==
    /\ taxMode' = mode
    /\ cart' = [i \in 1..Len(cart) |->
                  [cart[i] EXCEPT !.price = TaxAdjust(@, mode)]]
    /\ lastOp' = Op("setTaxMode", mode, "", 0, Undefined, 0)
    /\ UNCHANGED <<selectedCustomer, selectedBranch, pricingStrategy,
                   lastSoldPrices, priceFetchingStatus, priceFetches,
                   saveRequests>>
    /\ UNCHANGED invoices
    /\ UNCHANGED <<mirrorVars, searchVars>>

\* setTaxMode: set({ taxMode: mode })
setTaxMode(mode) ==
    /\ taxMode' = mode
    /\ lastOp' = Op("setTaxMode", mode, "", 0, Undefined, 0)
    /\ UNCHANGED <<cart, selectedCustomer, selectedBranch, pricingStrategy,
                   lastSoldPrices, priceFetchingStatus, priceFetches,
                   saveRequests>>
    /\ UNCHANGED invoices
    /\ UNCHANGED <<mirrorVars, searchVars>>

setPricingStrategy(strategy) ==
    /\ pricingStrategy' = strategy
    /\ lastOp' = Op("setPricingStrategy", strategy, "", 0, Undefined, 0)
    /\ UNCHANGED <<cart, selectedCustomer, taxMode, selectedBranch,
                   lastSoldPrices, priceFetchingStatus, priceFetches,
                   saveRequests>>
    /\ UNCHANGED invoices
    /\ UNCHANGED <<mirrorVars, searchVars>>

\* The cache after setSelectedBranch(branch): cleared "if (branch)"
BranchChangeCache(cache, branch) ==
    IF branch # NoBranch THEN EmptyMap ELSE cache

setSelectedBranch(branch) ==
    /\ selectedBranch' = branch
    /\ lastSoldPrices' = BranchChangeCache(lastSoldPrices, branch)
    /\ lastOp' = Op("setSelectedBranch", branch, selectedBranch, 0, Undefined, 0)
    /\ UNCHANGED <<cart, selectedCustomer, taxMode, pricingStrategy,
                   priceFetchingStatus, priceFetches, saveRequests>>
    /\ UNCHANGED invoices
    /\ UNCHANGED <<mirrorVars, searchVars>>

----------------------------------------------------------------------------
(* The last-sold-price cache *)

\* The LastSoldPrice built from a row of the response
EntryOfRow(row) ==
    [productId |-> row.product_id, branchId |-> row.branch_id,
     unit |-> row.unit, price |-> row.price, date |-> row.created_at,
     taxMode |-> row.tax_mode]

RowKey(row) == Key(row.product_id, row.branch_id, row.unit)

\* setLastSoldPrice(key, price) for every row of a response
CacheWithRows(cache, rows) ==
    [k \in DOMAIN cache \cup {RowKey(r) : r \in rows} |->
        IF \E r \in rows : RowKey(r) = k
        THEN EntryOfRow(CHOOSE r \in rows : RowKey(r) = k)
        ELSE cache[k]]

\* The rows the last-sold-prices route selects: .in('product_id', ids)
\* .eq('branch_id', branch)
RowsFor(ids, branch) ==
    {r \in PriceRows : r.product_id \in ids /\ r.branch_id = branch}

\* setPriceFetchingStatus(id, status) for every id of a set
StatusWith(status, ids, value) ==
    [x \in DOMAIN status \cup ids |-> IF x \in ids THEN value ELSE status[x]]

\* fetchLastSoldPrices up to its first await; ids are the visible products
FetchLastSoldPrices(ids) ==
    /\ pricingStrategy = "lastSoldPrice"
    /\ selectedBranch # NoBranch
    /\ ids # {}
    /\ priceFetchingStatus' = StatusWith(priceFetchingStatus, ids, "loading")
    /\ priceFetches' = Append(priceFetches,
                              [branch |-> selectedBranch, ids |-> ids])
    /\ lastOp' = Op("fetchLastSoldPrices", selectedBranch, "", 0, Undefined, 0)
    /\ UNCHANGED <<cart, selectedCustomer, taxMode, selectedBranch,
                   pricingStrategy, lastSoldPrices, saveRequests>>
    /\ UNCHANGED invoices
    /\ UNCHANGED <<mirrorVars, searchVars>>

RemoveAt(s, i) == SubSeq(s, 1, i - 1) \o SubSeq(s, i + 1, Len(s))

FetchOutcomes == {"prices", "unsuccessful", "failed"}

\* The rest of fetchLastSoldPrices once request i has been answered:
\* "prices": res.ok and data.success && data.prices; "unsuccessful": res.ok
\* with another body; "failed": HTTP error or network failure (the catch)
FetchResponse(i, outcome) ==
    /\ i \in 1..Len(priceFetches)
    /\ LET f == priceFetches[i]
           rows == RowsFor(f.ids, f.branch)
           found == {r.product_id : r \in rows}
       IN  /\ lastSoldPrices' =
                IF outcome = "prices" THEN CacheWithRows(lastSoldPrices, rows)
                ELSE lastSoldPrices
           /\ priceFetchingStatus' =
                IF outcome = "prices"
                THEN StatusWith(StatusWith(priceFetchingStatus, found, "loaded"),
                                f.ids \ found, "error")
                ELSE IF outcome = "failed"
                     THEN StatusWith(priceFetchingStatus, f.ids, "error")
                     ELSE priceFetchingStatus
           /\ lastOp' = Op("fetchResponse", f.branch, outcome, 0, Undefined, 0)
    /\ priceFetches' = RemoveAt(priceFetches, i)
    /\ UNCHANGED <<cart, selectedCustomer, taxMode, selectedBranch,
                   pricingStrategy, saveRequests>>
    /\ UNCHANGED invoices
    /\ UNCHANGED <<mirrorVars, searchVars>>

\* clearLastSoldPrices: set({ lastSoldPrices: new Map() })
clearLastSoldPrices ==
    /\ lastSoldPrices' = EmptyMap
    /\ lastOp' = Op("clearLastSoldPrices", "", "", 0, Undefined, 0)
    /\ UNCHANGED <<cart, selectedCustomer, taxMode, selectedBranch,
                   pricingStrategy, priceFetchingStatus, priceFetches,
                   saveRequests>>
    /\ UNCHANGED invoices
    /\ UNCHANGED <<mirrorVars, searchVars>>

\* logout once POST /api/auth/logout has answered ok: the auth-dependent
\* data is cleared (selectedCustomer: null, lastSoldPrices: new Map())
logout ==
    /\ selectedCustomer' = NoCustomer
    /\ lastSoldPrices' = EmptyMap
    /\ lastOp' = Op("logout", "", "", 0, Undefined, 0)
    /\ UNCHANGED <<cart, taxMode, selectedBranch, pricingStrategy,
                   priceFetchingStatus, priceFetches, saveRequests>>
    /\ UNCHANGED invoices
    /\ UNCHANGED <<mirrorVars, searchVars>>

SaveOutcomes == {"saved", "unsuccessful", "failed"}

\* The then/catch of addToCart's background save, once request i has been
\* answered.  It is not part of Next: saveRequests is always empty (C7).
SaveResponse(i, outcome, date) ==
    /\ i \in 1..Len(saveRequests)
    /\ LET b == saveRequests[i]
       IN  lastSoldPrices' =
             IF outcome = "saved"
             THEN MapSet(lastSoldPrices, Key(b.product_id, b.branch_id, b.unit),
                         [productId |-> b.product_id, branchId |-> b.branch_id,
                          unit |-> b.unit, price |-> b.price, date |-> date,
                          taxMode |-> b.tax_mode])
             ELSE lastSoldPrices
    /\ saveRequests' = RemoveAt(saveRequests, i)
    /\ lastOp' = Op("saveResponse", outcome, "", 0, Undefined, 0)
    /\ UNCHANGED <<cart, selectedCustomer, taxMode, selectedBranch,
                   pricingStrategy, priceFetchingStatus, priceFetches>>
    /\ UNCHANGED invoices
    /\ UNCHANGED <<mirrorVars, searchVars>>

----------------------------------------------------------------------------
(* Checkout (CartSidebar.handleCheckout, FloatingCart.handleCheckout) *)

\* cart.map(item => ({ item_id, quantity, rate, unit, tax_id }))
LineItems(c) ==
    [i \in 1..Len(c) |->
        [item_id |-> c[i].id, quantity |-> c[i].qty, rate |-> c[i].price,
         unit |-> c[i].unit]]

\* handleCheckout up to `await fetch('/api/invoices', ...)`
HandleCheckout ==
    /\ cart # <<>>
    /\ selectedCustomer # NoCustomer
    /\ invoices' = Append(invoices,
                          [customer_id |-> selectedCustomer,
                           line_items |-> LineItems(cart),
                           is_inclusive_tax |-> (taxMode = "inclusive"),
                           branch_id |-> selectedBranch])
    /\ lastOp' = Op("handleCheckout", selectedCustomer, "", 0, Undefined,
                    Len(cart))
    /\ UNCHANGED <<cart, selectedCustomer, taxMode, selectedBranch,
                   pricingStrategy, lastSoldPrices, priceFetchingStatus,
                   priceFetches, saveRequests>>
    /\ UNCHANGED <<mirrorVars, searchVars>>

\* "success": result.success; "unsuccessful": another body; "failed": the
\* fetch or response.json() rejects (the catch)
CheckoutOutcomes == {"success", "unsuccessful", "failed"}

\* The cart after the answer: clearCart() if (result.success)
CartAfterCheckout(c, outcome) == IF outcome = "success" THEN <<>> ELSE c

\* The rest of handleCheckout once request i has been answered: on success
\* clearCart() (and setSelectedCustomer(null) in CartSidebar)
CheckoutResponse(i, outcome) ==
    /\ i \in 1..Len(invoices)
    /\ cart' = CartAfterCheckout(cart, outcome)
    /\ selectedCustomer' = IF outcome = "success" THEN NoCustomer
                           ELSE selectedCustomer
    /\ invoices' = RemoveAt(invoices, i)
    /\ lastOp' = Op("checkoutResponse", invoices[i].customer_id, outcome, 0,
                    Undefined, Len(cart))
    /\ UNCHANGED <<taxMode, selectedBranch, pricingStrategy, lastSoldPrices,
                   priceFetchingStatus, priceFetches, saveRequests>>
    /\ UNCHANGED <<mirrorVars, searchVars>>

----------------------------------------------------------------------------
(* The catalog mirror and the staleness-aware read (useCachedProducts) *)

\* defaultConfig.maxAge: 5 * 60 * 1000 ms, in minutes (the unit of `now`)
maxAge == 5

\* defaultConfig.retryOnError
retryOnError == TRUE

\* retry: retryOnError ? 2 : false
Retries == IF retryOnError THEN 2 ELSE 0

\* response.data.items || [] of GET /api/items
ApiResults == {{}, {"P1"}, {"P1", "P2"}}

\* The components that read the products collection through the hook
Callers == {"c1", "c2"}

\* Mutant: the sync stores its result under the customers' key
ProductsKey_Customers == "customers/cached"

\* The key of setQueryData(['products', 'cached'], ...)
ProductsKey == "products/cached"

\* Mutant: every caller reads under a key of its own
queryKey_PerCaller(c) == c

\* queryKey: ['products', 'cached'] of the hook's useQuery
queryKey(c) == "products/cached"

QueryKeys == {queryKey(c) : c \in Callers}

NoRead == [pc |-> "idle", cached |-> {}, attempt |-> 0, callers |-> {}]

NoLastRead ==
    [synced |-> FALSE, age |-> 0, cached |-> {}, result |-> "none",
     data |-> {}, requests |-> 0, blocking |-> FALSE, warned |-> FALSE]

NotDelivered == [result |-> "none", data |-> {}]

\* The caller's read has not resolved yet (isLoading)
Waiting == [result |-> "waiting", data |-> {}]

\* What the callers attached to a query receive when it settles
Deliver(d, cs, result, data) ==
    [c \in DOMAIN d |-> IF c \in cs THEN [result |-> result, data |-> data]
                        ELSE d[c]]

\* No backgroundSyncProducts has settled yet
NoSyncDone == [outcome |-> "none", items |-> {}, by |-> "", stale |-> FALSE]

\* Mutant: only a missing lastSync makes the mirror stale
isStale_IgnoringAge(sync, time, age) == sync = 0

\* Mutant: the mirror is stale from age maxAge on
isStale_AtMaxAge(sync, time, age) == sync = 0 \/ time - sync >= age

\* cacheManager.isStale: !metadata?.lastSync, or Date.now() - lastSync > maxAge
isStale(sync, time, age) == sync = 0 \/ time - sync > age

\* productsCache.set(products): every record is put, none is deleted
MirrorSet(m, items) == m \cup items

\* A request to GET /api/items: who awaits it (kind), the query key its
\* result is stored under, who started it, and whether the mirror was stale
\* when it was started
SyncRequest(kind, key, by) ==
    [kind |-> kind, key |-> key, by |-> by,
     stale |-> isStale(lastSync, now, maxAge)]

\* The interval of the periodic check passes (one minute)
Tick ==
    /\ now' = now + 1
    /\ UNCHANGED <<mirror, lastSync, syncs, read, lastRead, queryData,
                   syncStatus, delivered, lastSyncDone, enableBackgroundSync,
                   mounted, checking>>
    /\ UNCHANGED <<storeVars, searchVars>>

\* A caller reads while the query of its key is idle: queryFn starts and
\* runs up to `await productsCache.getAll()`
ReadGetAll(c) ==
    /\ read[queryKey(c)].pc = "idle"
    /\ read' = [read EXCEPT ![queryKey(c)] =
                  [pc |-> "gotAll", cached |-> mirror, attempt |-> 0,
                   callers |-> {c}]]
    /\ delivered' = [delivered EXCEPT ![c] = Waiting]
    /\ UNCHANGED <<mirror, lastSync, now, syncs, lastRead, queryData,
                   syncStatus, lastSyncDone, enableBackgroundSync,
                   mounted, checking>>
    /\ UNCHANGED <<storeVars, searchVars>>

\* A caller reads while the query of its key is running: useQuery attaches
\* it to the running query
ReadJoin(c) ==
    /\ read[queryKey(c)].pc # "idle"
    /\ c \notin read[queryKey(c)].callers
    /\ read' = [read EXCEPT ![queryKey(c)].callers = @ \cup {c}]
    /\ delivered' = [delivered EXCEPT ![c] = Waiting]
    /\ UNCHANGED <<mirror, lastSync, now, syncs, lastRead, queryData,
                   syncStatus, lastSyncDone, enableBackgroundSync,
                   mounted, checking>>
    /\ UNCHANGED <<storeVars, searchVars>>

\* queryFn from `await cacheManager.isStale(...)` to its return or to its
\* axios.get
ReadDecide(k) ==
    /\ k \in DOMAIN read
    /\ read[k].pc = "gotAll"
    /\ LET q == read[k]
           stale == isStale(lastSync, now, maxAge)
           seen == [synced |-> lastSync # 0,
                    age |-> IF lastSync # 0 THEN now - lastSync ELSE 0,
                    cached |-> q.cached]
       IN  IF q.cached # {} /\ ~stale
           THEN /\ syncs' = IF enableBackgroundSync
                            THEN Append(syncs, SyncRequest("background",
                                                          ProductsKey, "read"))
                            ELSE syncs
                /\ syncStatus' = IF enableBackgroundSync THEN "syncing"
                                 ELSE syncStatus
                /\ read' = [read EXCEPT ![k] = NoRead]
                /\ queryData' = [queryData EXCEPT ![k] = q.cached]
                /\ delivered' = Deliver(delivered, q.callers, "mirror", q.cached)
                /\ lastRead' =
                     [synced |-> seen.synced, age |-> seen.age,
                      cached |-> seen.cached, result |-> "mirror",
                      data |-> q.cached,
                      requests |-> IF enableBackgroundSync THEN 1 ELSE 0,
                      blocking |-> FALSE, warned |-> FALSE]
           ELSE /\ syncs' = Append(syncs, SyncRequest("read", k, "read"))
                /\ syncStatus' = "syncing"
                /\ read' = [read EXCEPT ![k].pc = "fetching"]
                /\ lastRead' =
                     [synced |-> seen.synced, age |-> seen.age,
                      cached |-> seen.cached, result |-> "pending",
                      data |-> {}, requests |-> 1, blocking |-> TRUE,
                      warned |-> FALSE]
                /\ UNCHANGED <<queryData, delivered>>
    /\ UNCHANGED <<mirror, lastSync, now, lastSyncDone, enableBackgroundSync,
                   mounted, checking>>
    /\ UNCHANGED <<storeVars, searchVars>>

\* The axios.get of queryFn resolves with items: the mirror is written and
\* the items are returned
ReadResponse(i, items) ==
    /\ i \in 1..Len(syncs)
    /\ syncs[i].kind = "read"
    /\ LET k == syncs[i].key
       IN  /\ read' = [read EXCEPT ![k] = NoRead]
           /\ queryData' = [queryData EXCEPT ![k] = items]
           /\ delivered' = Deliver(delivered, read[k].callers, "network", items)
    /\ mirror' = MirrorSet(mirror, items)
    /\ lastSync' = now
    /\ syncStatus' = "idle"
    /\ syncs' = RemoveAt(syncs, i)
    /\ lastRead' = [lastRead EXCEPT !.result = "network", !.data = items]
    /\ UNCHANGED <<now, lastSyncDone, enableBackgroundSync,
                   mounted, checking>>
    /\ UNCHANGED <<storeVars, searchVars>>

\* Mutant: the failed read resolves to an empty collection
ReadFallback_Empty(last, m) ==
    [last EXCEPT !.result = "fallback", !.data = {}, !.warned = FALSE]

\* The catch of queryFn: the mirror's records with a warning, or the error
ReadFallback(last, m) ==
    IF m # {}
    THEN [last EXCEPT !.result = "fallback", !.data = m, !.warned = TRUE]
    ELSE [last EXCEPT !.result = "error"]

\* The axios.get of queryFn rejects: the catch falls back to the mirror or
\* rethrows; a rethrown error is retried by useQuery up to Retries times
ReadFailure(i) ==
    /\ i \in 1..Len(syncs)
    /\ syncs[i].kind = "read"
    /\ LET k == syncs[i].key
           q == read[k]
           out == ReadFallback(lastRead, mirror)
       IN  /\ lastRead' = out
           /\ IF out.result = "fallback"
              THEN /\ read' = [read EXCEPT ![k] = NoRead]
                   /\ queryData' = [queryData EXCEPT ![k] = out.data]
                   /\ delivered' = Deliver(delivered, q.callers, "fallback",
                                           out.data)
              ELSE IF q.attempt < Retries
                   THEN /\ read' = [read EXCEPT ![k].pc = "retry"]
                        /\ UNCHANGED <<queryData, delivered>>
                   ELSE /\ read' = [read EXCEPT ![k] = NoRead]
                        /\ delivered' = Deliver(delivered, q.callers, "error",
                                                {})
                        /\ UNCHANGED queryData
    /\ syncStatus' = "error"
    /\ syncs' = RemoveAt(syncs, i)
    /\ UNCHANGED <<mirror, lastSync, now, lastSyncDone, enableBackgroundSync,
                   mounted, checking>>
    /\ UNCHANGED <<storeVars, searchVars>>

\* useQuery invokes queryFn again after a rethrown error
ReadRetry(k) ==
    /\ k \in DOMAIN read
    /\ read[k].pc = "retry"
    /\ read' = [read EXCEPT ![k].pc = "gotAll", ![k].cached = mirror,
                            ![k].attempt = @ + 1]
    /\ UNCHANGED <<mirror, lastSync, now, syncs, lastRead, queryData,
                   syncStatus, delivered, lastSyncDone, enableBackgroundSync,
                   mounted, checking>>
    /\ UNCHANGED <<storeVars, searchVars>>

\* backgroundSyncProducts up to its axios.get
BackgroundSyncStart(by) ==
    /\ syncs' = Append(syncs, SyncRequest("background", ProductsKey, by))
    /\ syncStatus' = "syncing"
    /\ UNCHANGED <<mirror, lastSync, now, read, lastRead, queryData,
                   delivered, lastSyncDone, enableBackgroundSync, mounted>>
    /\ UNCHANGED <<storeVars, searchVars>>

\* The interval set by the mounted hook fires: its callback runs up to
\* `await cacheManager.isStale('products', maxAge)`
PeriodicTick ==
    /\ mounted
    /\ enableBackgroundSync
    /\ checking' = checking + 1
    /\ UNCHANGED <<mirror, lastSync, now, syncs, read, lastRead, queryData,
                   syncStatus, delivered, lastSyncDone, enableBackgroundSync,
                   mounted>>
    /\ UNCHANGED <<storeVars, searchVars>>

\* The rest of the interval's callback: isStale has read the metadata and
\* the clock, and backgroundSyncProducts is called if it says stale
PeriodicCheck ==
    /\ checking > 0
    /\ checking' = checking - 1
    /\ IF isStale(lastSync, now, maxAge)
       THEN BackgroundSyncStart("timer")
       ELSE /\ UNCHANGED <<mirror, lastSync, now, syncs, read, lastRead,
                           queryData, syncStatus, delivered, lastSyncDone,
                           enableBackgroundSync, mounted>>
            /\ UNCHANGED <<storeVars, searchVars>>

\* The cleanup of the interval's effect: clearInterval(interval)
Unmount ==
    /\ mounted
    /\ mounted' = FALSE
    /\ UNCHANGED <<mirror, lastSync, now, syncs, read, lastRead, queryData,
                   syncStatus, delivered, lastSyncDone, enableBackgroundSync,
                   checking>>
    /\ UNCHANGED <<storeVars, searchVars>>

\* Mutant: the forced sync runs only over a stale mirror
ForceSync_WhenStale ==
    /\ isStale(lastSync, now, maxAge)
    /\ BackgroundSyncStart("forceSync")
    /\ UNCHANGED checking

\* forceSync: backgroundSyncProducts called by the page
ForceSync == BackgroundSyncStart("forceSync") /\ UNCHANGED checking

\* backgroundSyncProducts once its axios.get has resolved with items
BackgroundResponse(i, items) ==
    /\ i \in 1..Len(syncs)
    /\ syncs[i].kind = "background"
    /\ mirror' = MirrorSet(mirror, items)
    /\ lastSync' = now
    /\ queryData' = [k \in DOMAIN queryData \cup {ProductsKey} |->
                       IF k = ProductsKey THEN items ELSE queryData[k]]
    /\ syncStatus' = "idle"
    /\ lastSyncDone' = [outcome |-> "success", items |-> items,
                        by |-> syncs[i].by, stale |-> syncs[i].stale]
    /\ syncs' = RemoveAt(syncs, i)
    /\ UNCHANGED <<now, read, lastRead, delivered, enableBackgroundSync,
                   mounted, checking>>
    /\ UNCHANGED <<storeVars, searchVars>>

\* The syncs whose write is done and whose setQueryData is to come
WrittenSyncs == {i \in 1..Len(syncs) : syncs[i].kind = "written"}

\* backgroundSyncProducts from the answer of its axios.get to the end of
\* `await productsCache.set(apiProducts)`: the records and the metadata are
\* written; setQueryData is still to come.  The readwrite transactions of
\* two calls of set are run by IndexedDB in the order they were created, so
\* the calls resume in the order of their writes: the written syncs are kept
\* in that order at the front of syncs.
BackgroundWrite(i, items) ==
    /\ i \in 1..Len(syncs)
    /\ syncs[i].kind = "background"
    /\ mirror' = MirrorSet(mirror, items)
    /\ lastSync' = now
    /\ syncs' = LET n == Cardinality(WrittenSyncs)
                    rest == RemoveAt(syncs, i)
                IN  SubSeq(rest, 1, n)
                    \o <<[kind |-> "written", key |-> items,
                          by |-> syncs[i].by, stale |-> syncs[i].stale]>>
                    \o SubSeq(rest, n + 1, Len(rest))
    /\ UNCHANGED <<now, read, lastRead, queryData, syncStatus, delivered,
                   lastSyncDone, enableBackgroundSync, mounted, checking>>
    /\ UNCHANGED <<storeVars, searchVars>>

\* backgroundSyncProducts after `await productsCache.set(apiProducts)`:
\* setQueryData and setSyncStatus('idle'), for the earliest write
BackgroundPublish(i) ==
    /\ i \in WrittenSyncs
    /\ \A j \in WrittenSyncs : i <= j
    /\ queryData' = [k \in DOMAIN queryData \cup {ProductsKey} |->
                       IF k = ProductsKey THEN syncs[i].key ELSE queryData[k]]
    /\ syncStatus' = "idle"
    /\ lastSyncDone' = [outcome |-> "success", items |-> syncs[i].key,
                        by |-> syncs[i].by, stale |-> syncs[i].stale]
    /\ syncs' = RemoveAt(syncs, i)
    /\ UNCHANGED <<mirror, lastSync, now, read, lastRead, delivered,
                   enableBackgroundSync, mounted, checking>>
    /\ UNCHANGED <<storeVars, searchVars>>

\* backgroundSyncProducts once its axios.get has rejected
BackgroundFailure(i) ==
    /\ i \in 1..Len(syncs)
    /\ syncs[i].kind = "background"
    /\ syncStatus' = "error"
    /\ lastSyncDone' = [outcome |-> "failure", items |-> {},
                        by |-> syncs[i].by, stale |-> syncs[i].stale]
    /\ syncs' = RemoveAt(syncs, i)
    /\ UNCHANGED <<mirror, lastSync, now, read, lastRead, queryData,
                   delivered, enableBackgroundSync,
                   mounted, checking>>
    /\ UNCHANGED <<storeVars, searchVars>>

----------------------------------------------------------------------------
(* The search index (src/lib/hooks/use-debounced-search.ts)                *)
(*                                                                         *)
(* A JavaScript string is modelled as the sequence of its characters, so   *)
(* that toLowerCase, includes, startsWith, trim and split are computed.    *)

MaxLimit == 2
MaxScheduled == 2

\* The delay argument of useDebounce, in ticks of the model's clock
delay == 2

Space == " "

\* String.prototype.toLowerCase, on the characters the model uses
LowerChar(ch) ==
    CASE ch = "A" -> "a"
      [] ch = "B" -> "b"
      [] ch = "C" -> "c"
      [] ch = "K" -> "k"
      [] OTHER -> ch

toLowerCase(s) == [i \in 1..Len(s) |-> LowerChar(s[i])]

\* String.prototype.includes
includes(s, t) ==
    \E i \in 0..(Len(s) - Len(t)) : SubSeq(s, i + 1, i + Len(t)) = t

startsWith_Anywhere(s, t) == includes(s, t)

\* String.prototype.startsWith
startsWith(s, t) ==
    Len(t) <= Len(s) /\ SubSeq(s, 1, Len(t)) = t

RECURSIVE trimStart(_)
trimStart(s) ==
    IF s # <<>> /\ Head(s) = Space THEN trimStart(Tail(s)) ELSE s

RECURSIVE trimEnd(_)
trimEnd(s) ==
    IF s # <<>> /\ s[Len(s)] = Space
    THEN trimEnd(SubSeq(s, 1, Len(s) - 1))
    ELSE s

trim_Nothing(s) == s

\* String.prototype.trim
trim(s) == trimEnd(trimStart(s))

\* s.split(/\s+/) from position i on: cur is the piece being read, out the
\* pieces before it.  A run of white space separates two pieces, so white
\* space at either end of s yields an empty piece there.
RECURSIVE SplitFrom(_, _, _, _)
SplitFrom(s, i, cur, out) ==
    IF i > Len(s) THEN Append(out, cur)
    ELSE IF s[i] = Space
         THEN IF i > 1 /\ s[i - 1] = Space
              THEN SplitFrom(s, i + 1, cur, out)
              ELSE SplitFrom(s, i + 1, <<>>, Append(out, cur))
         ELSE SplitFrom(s, i + 1, Append(cur, s[i]), out)

split(s) == SplitFrom(s, 1, <<>>, <<>>)

NonEmpty(w) == w # <<>>

\* .filter(Boolean) on an array of strings
filterBoolean(ws) == SelectSeq(ws, NonEmpty)

\* parts.join(' ') of three parts
join3(a, b, c) == a \o <<Space>> \o b \o <<Space>> \o c

\* The catalog records the index is built over.  group_name is optional:
\* <<>> stands for both undefined and '', which the index treats alike.
SearchRecords ==
    { [id |-> "S1", name |-> <<"a", "b">>, sku |-> <<"k", "1">>,
       group_name |-> <<>>],
      [id |-> "S2", name |-> <<"A", "b", " ", "c", "a", "b">>,
       sku |-> <<"K", "2">>, group_name |-> <<"b">>],
      [id |-> "S3", name |-> <<"b", " ", " ", "a">>, sku |-> <<"k", "3">>,
       group_name |-> <<"a", "b", " ", "a", "b">>],
      [id |-> "S4", name |-> <<"c", "a", "b">>, sku |-> <<"k", "4">>,
       group_name |-> <<>>],
      [id |-> "S5", name |-> <<"a", "b", "c">>, sku |-> <<"a", " ", "b">>,
       group_name |-> <<>>] }

\* The sequences of distinct records of a set
RECURSIVE Arrangements(_)
Arrangements(S) ==
    {<<>>} \cup UNION { {<<r>> \o t : t \in Arrangements(S \ {r})} : r \in S }

\* The collections the index is built over
Collections == Arrangements(SearchRecords)

\* The query strings the search is asked
Queries ==
    { <<>>, <<" ">>, <<"a">>, <<"a", "b">>, <<"A", "B">>, <<"a", " ", "b">>,
      <<"b", " ", " ", "a">>, <<"a", "b", " ">>, <<"k">>, <<"c", "a", "b">>,
      <<"z">>, <<"a", " ", "a">> }

Limits == 1..MaxLimit

createProductIndex(ps) ==
    [i \in 1..Len(ps) |->
        [item |-> ps[i],
         searchText |->
             toLowerCase(join3(ps[i].name, ps[i].sku, ps[i].group_name)),
         keywords |->
             filterBoolean(split(toLowerCase(ps[i].name))
                           \o <<toLowerCase(ps[i].sku)>>
                           \o split(toLowerCase(ps[i].group_name)))]]

KeywordScore_NoPrefixBonus(keyword, queryWord) ==
    IF includes(keyword, queryWord)
    THEN RMul(RDiv(R(Len(queryWord)), R(Len(keyword))), R(10))
    ELSE R(0)

\* What the body of the keyword loop adds to score
KeywordScore(keyword, queryWord) ==
    RAdd(IF includes(keyword, queryWord)
         THEN RMul(RDiv(R(Len(queryWord)), R(Len(keyword))), R(10))
         ELSE R(0),
         IF startsWith(keyword, queryWord) THEN R(20) ELSE R(0))

\* The two nested for-of loops over queryWords and keywords, from the
\* q-th query word and the k-th keyword on
RECURSIVE ScoreLoop(_, _, _, _, _)
ScoreLoop(queryWords, keywords, q, k, score) ==
    IF q > Len(queryWords) THEN score
    ELSE IF k > Len(keywords)
         THEN ScoreLoop(queryWords, keywords, q + 1, 1, score)
         ELSE ScoreLoop(queryWords, keywords, q, k + 1,
                        RAdd(score, KeywordScore(keywords[k], queryWords[q])))

\* The score searchIndex gives an index entry
Score(entry, lowerQuery, queryWords) ==
    ScoreLoop(queryWords, entry.keywords, 1, 1,
              IF includes(entry.searchText, lowerQuery) THEN R(100) ELSE R(0))

\* The for-of loop over the index from entry i on: results with the scores
\* collected so far, visited the number of entries the loop has looked at.
RECURSIVE ScanIndex_NoBreak(_, _, _, _, _)
ScanIndex_NoBreak(index, lowerQuery, limit, i, acc) ==
    IF i > Len(index) THEN acc
    ELSE LET score == Score(index[i], lowerQuery,
                            filterBoolean(split(lowerQuery)))
             results == IF RGt(score, R(0))
                        THEN Append(acc.results,
                                    [item |-> index[i].item, score |-> score])
                        ELSE acc.results
             next == [results |-> results, visited |-> i,
                      scores |-> Append(acc.scores, score)]
         IN  ScanIndex_NoBreak(index, lowerQuery, limit, i + 1, next)

RECURSIVE ScanIndex(_, _, _, _, _)
ScanIndex(index, lowerQuery, limit, i, acc) ==
    IF i > Len(index) THEN acc
    ELSE LET score == Score(index[i], lowerQuery,
                            filterBoolean(split(lowerQuery)))
             results == IF RGt(score, R(0))
                        THEN Append(acc.results,
                                    [item |-> index[i].item, score |-> score])
                        ELSE acc.results
             next == [results |-> results, visited |-> i,
                      scores |-> Append(acc.scores, score)]
         IN  IF Len(results) >= limit * 2
             THEN next
             ELSE ScanIndex(index, lowerQuery, limit, i + 1, next)

\* Insertion of r into rs, sorted by descending score, behind its equals
RECURSIVE InsertByScore(_, _)
InsertByScore(rs, r) ==
    IF rs = <<>> THEN <<r>>
    ELSE IF RGt(r.score, Head(rs).score)
         THEN <<r>> \o rs
         ELSE <<Head(rs)>> \o InsertByScore(Tail(rs), r)

RECURSIVE SortFrom(_, _, _)
SortFrom(rs, i, sorted) ==
    IF i > Len(rs) THEN sorted
    ELSE SortFrom(rs, i + 1, InsertByScore(sorted, rs[i]))

sort_Unsorted(rs) == rs

\* results.sort((a, b) => b.score - a.score): Array.prototype.sort is stable
sort(rs) == SortFrom(rs, 1, <<>>)

\* Array.prototype.slice(0, n)
slice(rs, n) == SubSeq(rs, 1, IF n < Len(rs) THEN n ELSE Len(rs))

NoScan ==
    [query |-> <<>>, collection |-> <<>>, limit |-> 0, visited |-> 0,
     scores |-> <<>>, result |-> <<>>, by |-> "none", current |-> TRUE]

\* One call of searchIndex(index, query, limit), with what its loop did
searchIndexRun(index, q, limit) ==
    IF trim(q) = <<>>
    THEN [visited |-> 0, scores |-> <<>>, result |-> <<>>]
    ELSE LET scan == ScanIndex(index, toLowerCase(q), limit, 1,
                        [results |-> <<>>, visited |-> 0, scores |-> <<>>])
             top == slice(sort(scan.results), limit)
         IN  [visited |-> scan.visited, scores |-> scan.scores,
              result |-> [i \in 1..Len(top) |-> top[i].item]]

searchIndex(index, q, limit) == searchIndexRun(index, q, limit).result

\* A call of searchIndex over the index of the current collection
SearchIndexCall(q, limit) ==
    /\ lastScan' =
          LET run == searchIndexRun(createProductIndex(allProducts), q, limit)
          IN  [query |-> q, collection |-> allProducts, limit |-> limit,
               visited |-> run.visited, scores |-> run.scores,
               result |-> run.result, by |-> "call", current |-> TRUE]
    /\ UNCHANGED <<query, debouncedQuery, handler, unchangedFor, allProducts,
                   scheduled, products, isLoading>>
    /\ UNCHANGED <<storeVars, mirrorVars>>

\* Mutant: the matches are not sliced
productsGetBySearch_Uncapped(ps, q, limit) ==
    SelectSeq(ps, LAMBDA p :
        \/ includes(toLowerCase(p.name), toLowerCase(q))
        \/ includes(toLowerCase(p.sku), toLowerCase(q))
        \/ includes(toLowerCase(p.group_name), toLowerCase(q)))

\* productsCache.getBySearch(query, limit) over the records db.getAll yields
productsGetBySearch(ps, q, limit) ==
    IF trim(q) = <<>>
    THEN ps
    ELSE slice(SelectSeq(ps, LAMBDA p :
                   \/ includes(toLowerCase(p.name), toLowerCase(q))
                   \/ includes(toLowerCase(p.sku), toLowerCase(q))
                   \/ /\ p.group_name # <<>>
                      /\ includes(toLowerCase(p.group_name), toLowerCase(q))),
               limit)

\* The customer records of the mirror.  email is optional: <<>> stands for
\* undefined.
CustomerRecords ==
    { [contact_id |-> "K1", contact_name |-> <<"a", "b">>, email |-> <<>>],
      [contact_id |-> "K2", contact_name |-> <<"C", "a", "b">>,
       email |-> <<"b", " ", "a">>],
      [contact_id |-> "K3", contact_name |-> <<"z">>,
       email |-> <<"A", "B">>] }

CustomerCollections == Arrangements(CustomerRecords)

\* customersCache.getBySearch(query, limit)
customersGetBySearch(cs, q, limit) ==
    IF trim(q) = <<>>
    THEN cs
    ELSE slice(SelectSeq(cs, LAMBDA c :
                   \/ includes(toLowerCase(c.contact_name), toLowerCase(q))
                   \/ /\ c.email # <<>>
                      /\ includes(toLowerCase(c.email), toLowerCase(q))),
               limit)

\* One call of productsCache.getBySearch over the mirrored products
ProductsGetBySearchCall(q, limit) ==
    /\ lastScan' =
          [query |-> q, collection |-> allProducts, limit |-> limit,
           visited |-> Len(allProducts), scores |-> <<>>,
           result |-> productsGetBySearch(allProducts, q, limit),
           by |-> "productsCache.getBySearch", current |-> TRUE]
    /\ UNCHANGED <<query, debouncedQuery, handler, unchangedFor, allProducts,
                   scheduled, products, isLoading>>
    /\ UNCHANGED <<storeVars, mirrorVars>>

\* One call of customersCache.getBySearch over the mirrored customers cs
CustomersGetBySearchCall(cs, q, limit) ==
    /\ lastScan' =
          [query |-> q, collection |-> cs, limit |-> limit,
           visited |-> Len(cs), scores |-> <<>>,
           result |-> customersGetBySearch(cs, q, limit),
           by |-> "customersCache.getBySearch", current |-> TRUE]
    /\ UNCHANGED <<query, debouncedQuery, handler, unchangedFor, allProducts,
                   scheduled, products, isLoading>>
    /\ UNCHANGED <<storeVars, mirrorVars>>

----------------------------------------------------------------------------
(* useDebounce and useDebouncedProductSearch                               *)

\* The limit useDebouncedProductSearch passes to searchIndex
ProductSearchLimit == 50

\* handler: no timeout is pending
NoTimer == [value |-> <<>>, left |-> -1]

\* The values the search box takes
Inputs == { <<>>, <<"a">>, <<"a", "b">> }

\* The collections the store delivers while the search box is mounted
StoreCollections ==
    { c \in Collections :
        \/ c = <<>>
        \/ Len(c) = 1 /\ c[1].id = "S1"
        \/ Len(c) = 2 /\ c[1].id = "S4" /\ c[2].id = "S1" }

useDebounceEffect_NoDelay(v) == [value |-> v, left |-> 0]

\* The effect of useDebounce: its cleanup has cleared the pending timeout,
\* and it sets a new one for the value.
useDebounceEffect(v) == [value |-> v, left |-> delay]

searchEffect_Cancelling(q, ps) ==
    IF trim(q) = <<>> \/ Len(createProductIndex(ps)) = 0
    THEN /\ products' = <<>>
         /\ isLoading' = FALSE
         /\ scheduled' = <<>>
    ELSE /\ isLoading' = TRUE
         /\ scheduled' = <<[query |-> q, collection |-> ps]>>
         /\ UNCHANGED products

\* The search effect of useDebouncedProductSearch, run for a debounced
\* query and the index of a collection.  It has no cleanup: what an earlier
\* run handed to requestIdleCallback stays scheduled.
searchEffect(q, ps) ==
    IF trim(q) = <<>> \/ Len(createProductIndex(ps)) = 0
    THEN /\ products' = <<>>
         /\ isLoading' = FALSE
         /\ UNCHANGED scheduled
    ELSE /\ isLoading' = TRUE
         /\ scheduled' = Append(scheduled, [query |-> q, collection |-> ps])
         /\ UNCHANGED products

\* The search box is rendered with another query
SetQuery(v) ==
    /\ v # query
    /\ query' = v
    /\ handler' = useDebounceEffect(v)
    /\ unchangedFor' = 0
    /\ UNCHANGED <<debouncedQuery, allProducts, scheduled, products,
                   isLoading, lastScan>>
    /\ UNCHANGED <<storeVars, mirrorVars>>

\* One tick of the clock while a timeout is pending
Elapse ==
    /\ handler # NoTimer
    /\ handler.left > 0
    /\ handler' = [handler EXCEPT !.left = @ - 1]
    /\ unchangedFor' = unchangedFor + 1
    /\ UNCHANGED <<query, debouncedQuery, allProducts, scheduled, products,
                   isLoading, lastScan>>
    /\ UNCHANGED <<storeVars, mirrorVars>>

\* The timeout of useDebounce fires: setDebouncedValue(value), and the
\* search effect when that changes the debounced query.
DebounceFire ==
    /\ handler # NoTimer
    /\ handler.left = 0
    /\ debouncedQuery' = handler.value
    /\ handler' = NoTimer
    /\ IF handler.value # debouncedQuery
       THEN searchEffect(handler.value, allProducts)
       ELSE UNCHANGED <<scheduled, products, isLoading>>
    /\ UNCHANGED <<query, unchangedFor, allProducts, lastScan>>
    /\ UNCHANGED <<storeVars, mirrorVars>>

\* The store's products change (the catalog was loaded or synced), the
\* index is rebuilt and the search effect runs for it.
setProducts(ps) ==
    /\ ps # allProducts
    /\ allProducts' = ps
    /\ searchEffect(debouncedQuery, ps)
    /\ UNCHANGED <<query, debouncedQuery, handler, unchangedFor, lastScan>>
    /\ UNCHANGED <<storeVars, mirrorVars>>

\* The browser runs the searchCallback that was scheduled first
searchCallback ==
    /\ scheduled # <<>>
    /\ LET scan == Head(scheduled)
           run == searchIndexRun(createProductIndex(scan.collection),
                                 scan.query, ProductSearchLimit)
       IN  /\ products' = run.result
           /\ lastScan' =
                 [query |-> scan.query, collection |-> scan.collection,
                  limit |-> ProductSearchLimit, visited |-> run.visited,
                  scores |-> run.scores, result |-> run.result,
                  by |-> "searchCallback",
                  current |-> /\ scan.query = debouncedQuery
                              /\ scan.collection = allProducts]
    /\ isLoading' = FALSE
    /\ scheduled' = Tail(scheduled)
    /\ UNCHANGED <<query, debouncedQuery, handler, unchangedFor, allProducts>>
    /\ UNCHANGED <<storeVars, mirrorVars>>

----------------------------------------------------------------------------
(* Specifications *)

MirrorIdle ==
    /\ mirror = {}
    /\ lastSync = 0
    /\ now = 1
    /\ syncs = <<>>
    /\ read = [k \in QueryKeys |-> NoRead]
    /\ lastRead = NoLastRead
    /\ queryData = [k \in QueryKeys \cup {ProductsKey} |-> {}]
    /\ syncStatus = "idle"
    /\ delivered = [c \in Callers |-> NotDelivered]
    /\ lastSyncDone = NoSyncDone
    /\ mounted = TRUE
    /\ checking = 0

\* useDebouncedProductSearch as mounted with an empty query: useDebounce's
\* effect has set its first timeout, the search effect has found the query
\* blank.
SearchIdle ==
    /\ query = <<>>
    /\ debouncedQuery = <<>>
    /\ handler = useDebounceEffect(<<>>)
    /\ unchangedFor = 0
    /\ allProducts = <<>>
    /\ scheduled = <<>>
    /\ products = <<>>
    /\ isLoading = FALSE
    /\ lastScan = NoScan

StoreIdle ==
    /\ cart = <<>>
    /\ selectedCustomer = NoCustomer
    /\ taxMode = "exclusive"
    /\ selectedBranch = NoBranch
    /\ lastSoldPrices = EmptyMap
    /\ priceFetchingStatus = EmptyMap
    /\ priceFetches = <<>>
    /\ saveRequests = <<>>
    /\ invoices = <<>>
    /\ lastOp = NoOp

\* The store as created, after the module has restored the saved pricing
\* strategy from localStorage; the catalog hook with its default config.
StoreInit ==
    /\ StoreIdle
    /\ SearchIdle
    /\ pricingStrategy \in Strategies
    /\ MirrorIdle
    /\ enableBackgroundSync = TRUE

\* The store as created when no pricing strategy has been saved
Init ==
    /\ StoreIdle
    /\ SearchIdle
    /\ pricingStrategy = "default"
    /\ MirrorIdle
    /\ enableBackgroundSync = TRUE

\* The catalog hook as mounted with a config, over an empty mirror
MirrorInit ==
    /\ StoreIdle
    /\ SearchIdle
    /\ pricingStrategy = "default"
    /\ MirrorIdle
    /\ enableBackgroundSync \in BOOLEAN

\* The model explores carts of at most n lines of at most MaxQty each.
CartWithin(n) ==
    /\ Len(cart') <= n
    /\ \A i \in 1..Len(cart') : cart'[i].qty <= MaxQty

\* The (product, unit, customPrice) arguments the cart specification adds
\* with: pieces of P1 at every price, plain cartons of P1 and plain pieces
\* of P2.
CartAdds ==
    ({p \in Products : p.id = "P1"} \X {"PCS"} \X CustomPrices)
    \cup ({p \in Products : p.id = "P1"} \X {"CTN"} \X {Undefined})
    \cup ({p \in Products : p.id = "P2"} \X {"PCS"} \X {Undefined})

\* The sets of visible product ids a fetch is issued for
VisibleIdSets == {ProductIds}

\* The cart: additions, the quantity buttons, removal and clearing.
Next ==
    \/ \E a \in CartAdds, q \in Quantities :
          addToCart(a[1], q, a[2], a[3]) /\ CartWithin(MaxCart)
    \/ \E i \in 1..MaxCart : SidebarMinus(i)
    \/ \E i \in 1..MaxCart : SidebarPlus(i) /\ CartWithin(MaxCart)
    \/ \E i \in 1..MaxCart, delta \in {-1, 1} :
          HandleUpdateQuantity(i, delta) /\ CartWithin(MaxCart)
    \/ \E id \in ProductIds, u \in {"PCS", "CTN"} : removeFromCart(id, u)
    \/ clearCart
    \/ \E m \in TaxModes : setTaxMode(m)

Spec == Init /\ [][Next]_vars

\* Pricing of a sale's first line: the settings, the last-sold-price cache
\* and its fetches, and additions to the empty cart.
PricingNext ==
    \/ \E p \in Products, u \in Units, cp \in CustomPrices :
          cart = <<>> /\ addToCart(p, 1, u, cp)
    \/ clearCart
    \/ \E m \in TaxModes : setTaxMode(m)
    \/ \E s \in Strategies : setPricingStrategy(s)
    \/ \E b \in Branches \cup {NoBranch} : setSelectedBranch(b)
    \/ \E c \in Customers : setSelectedCustomer(c)
    \/ clearLastSoldPrices
    \/ logout
    \/ \E ids \in VisibleIdSets :
          Len(priceFetches) < MaxFetches /\ FetchLastSoldPrices(ids)
    \/ \E i \in 1..MaxFetches, o \in FetchOutcomes : FetchResponse(i, o)

SpecPricing == StoreInit /\ [][PricingNext]_vars

\* The catalog read of one caller: the clock, the queryFn, the periodic
\* check and the network's answers.
MirrorNext ==
    \/ now < MaxTime /\ Tick
    \/ ReadGetAll("c1")
    \/ \E k \in QueryKeys : Len(syncs) < MaxSyncs /\ ReadDecide(k)
    \/ \E i \in 1..MaxSyncs, items \in ApiResults : ReadResponse(i, items)
    \/ \E i \in 1..MaxSyncs : ReadFailure(i)
    \/ \E k \in QueryKeys : ReadRetry(k)
    \/ checking = 0 /\ PeriodicTick
    \/ Len(syncs) < MaxSyncs /\ PeriodicCheck
    \/ \E i \in 1..MaxSyncs, items \in ApiResults : BackgroundResponse(i, items)
    \/ \E i \in 1..MaxSyncs : BackgroundFailure(i)

SpecMirror == MirrorInit /\ [][MirrorNext]_vars

\* Reads of several callers and forced syncs at one instant of the clock.
ReadsNext ==
    \/ \E c \in Callers : ReadGetAll(c)
    \/ \E c \in Callers : ReadJoin(c)
    \/ \E k \in QueryKeys : Len(syncs) < MaxSyncs /\ ReadDecide(k)
    \/ \E i \in 1..MaxSyncs, items \in ApiResults : ReadResponse(i, items)
    \/ \E i \in 1..MaxSyncs : ReadFailure(i)
    \/ \E k \in QueryKeys : ReadRetry(k)
    \/ Len(syncs) < MaxSyncs /\ ForceSync
    \/ \E i \in 1..MaxSyncs, items \in ApiResults : BackgroundResponse(i, items)
    \/ \E i \in 1..MaxSyncs : BackgroundFailure(i)

SpecReads == MirrorInit /\ [][ReadsNext]_vars

\* The periodic check over the lifetime of the mount: the clock, the
\* interval's callback in its two parts, the answers to the syncs it
\* starts, and the teardown.
TimerNext ==
    \/ now < MaxTime /\ Tick
    \/ checking = 0 /\ PeriodicTick
    \/ Len(syncs) < MaxSyncs /\ PeriodicCheck
    \/ Unmount
    \/ \E i \in 1..MaxSyncs, items \in ApiResults : BackgroundResponse(i, items)
    \/ \E i \in 1..MaxSyncs : BackgroundFailure(i)

SpecTimer == MirrorInit /\ [][TimerNext]_vars

\* Overlapping syncs of the products collection: forced syncs, each with
\* its answer, its write to the mirror and its update of the subscribers
\* as separate steps
SyncsNext ==
    \/ now < MaxTime /\ Tick
    \/ Len(syncs) < MaxSyncs /\ ForceSync
    \/ \E i \in 1..MaxSyncs, items \in ApiResults : BackgroundWrite(i, items)
    \/ \E i \in 1..MaxSyncs : BackgroundPublish(i)
    \/ \E i \in 1..MaxSyncs : BackgroundFailure(i)

SpecSyncs == MirrorInit /\ [][SyncsNext]_vars

\* The (product, unit, customPrice) arguments of the interleaved additions:
\* pieces of P1, plain and at a custom price
InterleavedAdds ==
    {p \in Products : p.id = "P1"} \X {"PCS"} \X {Undefined, R(12)}

\* Additions to the cart interleaved with the asynchronous work of the
\* page: the selection of a branch, a last-sold-price fetch and its answer,
\* a forced catalog sync and its answer.  No line is removed, cleared or
\* updated.
AddsNext ==
    \/ \E a \in InterleavedAdds, q \in Quantities :
          addToCart(a[1], q, a[2], a[3]) /\ CartWithin(MaxCart)
    \/ selectedBranch = NoBranch /\ setSelectedBranch("B1")
    \/ \E ids \in VisibleIdSets :
          priceFetches = <<>> /\ FetchLastSoldPrices(ids)
    \/ \E o \in FetchOutcomes : FetchResponse(1, o)
    \/ syncs = <<>> /\ ForceSync
    \/ BackgroundResponse(1, ProductIds)
    \/ BackgroundFailure(1)

SpecAdds == StoreInit /\ [][AddsNext]_vars

\* Repeated additions of one product while the settings that price a new
\* line change: the tax mode, the strategy, the branch and the cache.
MergesNext ==
    \/ \E a \in InterleavedAdds, q \in Quantities :
          addToCart(a[1], q, a[2], a[3]) /\ CartWithin(MaxCart)
    \/ \E m \in TaxModes : setTaxMode(m)
    \/ \E s \in Strategies : setPricingStrategy(s)
    \/ \E b \in Branches \cup {NoBranch} : setSelectedBranch(b)
    \/ \E ids \in VisibleIdSets :
          Len(priceFetches) < MaxFetches /\ FetchLastSoldPrices(ids)
    \/ \E i \in 1..MaxFetches, o \in FetchOutcomes : FetchResponse(i, o)

SpecMerges == StoreInit /\ [][MergesNext]_vars

\* The invoice requests the model keeps in flight
MaxInvoices == 1

\* Checkout while the cart stays usable: additions, the quantity buttons
\* and removals go on between the request and its answer
CheckoutNext ==
    \/ \E a \in InterleavedAdds, q \in Quantities :
          addToCart(a[1], q, a[2], a[3]) /\ CartWithin(MaxCart)
    \/ \E i \in 1..MaxCart, delta \in {-1, 1} :
          HandleUpdateQuantity(i, delta) /\ CartWithin(MaxCart)
    \/ \E id \in ProductIds, u \in {"PCS"} : removeFromCart(id, u)
    \/ \E c \in Customers : selectedCustomer = NoCustomer /\ setSelectedCustomer(c)
    \/ Len(invoices) < MaxInvoices /\ HandleCheckout
    \/ \E i \in 1..MaxInvoices, o \in CheckoutOutcomes : CheckoutResponse(i, o)

SpecCheckout == StoreInit /\ [][CheckoutNext]_vars

\* The most requests of the price-fetching effect the model keeps in flight
MaxInFlight == 2

\* The visible products of the grid: the first page, or a filtered list
FilteredIdSets == {{"P1"}, ProductIds}

\* The effect of ProductGrid that calls fetchLastSoldPrices has to run: the
\* grid has mounted, or the strategy or the branch has just changed
FetchEffectDue == lastOp.op \in {"init", "setPricingStrategy", "setSelectedBranch"}

\* The price-fetching effect over changes of the strategy and the branch,
\* with the answers of the route arriving in any order
FetchesNext ==
    \/ \E s \in Strategies : s # pricingStrategy /\ setPricingStrategy(s)
    \/ \E b \in Branches \cup {NoBranch} :
          b # selectedBranch /\ setSelectedBranch(b)
    \/ \E ids \in FilteredIdSets :
          /\ FetchEffectDue
          /\ Len(priceFetches) < MaxInFlight
          /\ FetchLastSoldPrices(ids)
    \/ \E i \in 1..MaxInFlight, o \in FetchOutcomes : FetchResponse(i, o)

SpecFetches == StoreInit /\ [][FetchesNext]_vars

\* The search box mounted over a store whose collection may already be
\* loaded
SearchInit ==
    /\ StoreIdle
    /\ pricingStrategy = "default"
    /\ MirrorIdle
    /\ enableBackgroundSync = TRUE
    /\ query = <<>>
    /\ debouncedQuery = <<>>
    /\ handler = useDebounceEffect(<<>>)
    /\ unchangedFor = 0
    /\ allProducts \in StoreCollections
    /\ scheduled = <<>>
    /\ products = <<>>
    /\ isLoading = FALSE
    /\ lastScan = NoScan

\* The scans that are scheduled or that a pending timeout may schedule
ScansAhead == Len(scheduled) + IF handler # NoTimer THEN 1 ELSE 0

\* The debounced product search: typing, the clock, the timeout, changes
\* of the store's collection and the scheduled scans.  The model explores
\* at most MaxScheduled scheduled scans: it types and changes the collection
\* only while the scan that may follow is within that.
SearchNext ==
    \/ \E v \in Inputs : Len(scheduled) < MaxScheduled /\ SetQuery(v)
    \/ Elapse
    \/ DebounceFire
    \/ \E ps \in StoreCollections :
          ScansAhead < MaxScheduled /\ setProducts(ps)
    \/ searchCallback

SpecSearch == SearchInit /\ [][SearchNext]_vars

\* The same with the scheduling of the browser: the clock advances and a
\* due timeout fires.
SpecSearchFair ==
    /\ SpecSearch
    /\ WF_vars(Elapse)
    /\ WF_vars(DebounceFire)

\* searchIndex as a function: a collection, and one call of it with every
\* query and limit.
IndexInit ==
    /\ StoreIdle
    /\ pricingStrategy = "default"
    /\ MirrorIdle
    /\ enableBackgroundSync = TRUE
    /\ query = <<>>
    /\ debouncedQuery = <<>>
    /\ handler = useDebounceEffect(<<>>)
    /\ unchangedFor = 0
    /\ allProducts \in Collections
    /\ scheduled = <<>>
    /\ products = <<>>
    /\ isLoading = FALSE
    /\ lastScan = NoScan

IndexNext ==
    \E q \in Queries, limit \in Limits :
        lastScan = NoScan /\ SearchIndexCall(q, limit)

SpecIndex == IndexInit /\ [][IndexNext]_vars

\* getBySearch of the two mirrors as functions: one call with every query
\* and limit over a collection
DbSearchNext ==
    \/ \E q \in Queries, limit \in Limits :
          lastScan = NoScan /\ ProductsGetBySearchCall(q, limit)
    \/ \E cs \in CustomerCollections, q \in Queries, limit \in Limits :
          /\ lastScan = NoScan
          /\ allProducts = <<>>
          /\ CustomersGetBySearchCall(cs, q, limit)

SpecDbSearch == IndexInit /\ [][DbSearchNext]_vars

----------------------------------------------------------------------------
(* Properties of the cart (specification Spec) *)

SameKey(item, op) == item.id = op.id /\ item.unit = op.unit

\* Both plain, or both with the identical custom price
SamePricing(item, op) ==
    \/ ~Truthy(op.cp) /\ ~Truthy(item.customPrice)
    \/ Truthy(op.cp) /\ Truthy(item.customPrice) /\ item.customPrice = op.cp

\* C1: an addToCart on a cart holding a line of the same product and unit
\* adds the requested quantity to the lines that are plain like the call or
\* carry its custom price, changing nothing else and appending nothing; when
\* no such line exists it appends one new line with the call's product,
\* unit, quantity and custom price and changes no existing line.
C1_MergeLaw ==
    [][ (/\ lastOp'.op = "addToCart"
         /\ \E i \in 1..Len(cart) : SameKey(cart[i], lastOp'))
        => IF \E i \in 1..Len(cart) :
                 SameKey(cart[i], lastOp') /\ SamePricing(cart[i], lastOp')
           THEN /\ Len(cart') = Len(cart)
                /\ \A i \in 1..Len(cart) :
                     IF SameKey(cart[i], lastOp') /\ SamePricing(cart[i], lastOp')
                     THEN cart'[i] =
                            [cart[i] EXCEPT !.qty = cart[i].qty + lastOp'.qty]
                     ELSE cart'[i] = cart[i]
           ELSE /\ Len(cart') = Len(cart) + 1
                /\ \A i \in 1..Len(cart) : cart'[i] = cart[i]
                /\ cart'[Len(cart')].id = lastOp'.id
                /\ cart'[Len(cart')].unit = lastOp'.unit
                /\ cart'[Len(cart')].qty = lastOp'.qty
                /\ cart'[Len(cart')].customPrice = lastOp'.cp
                /\ \A i \in 1..Len(cart) : cart[i] # cart'[Len(cart')]
      ]_vars

\* A second add with a custom price has merged into the line carrying that
\* price, beside a line of the same product and unit with another price.
C1_Witness ==
    /\ lastOp.op = "addToCart"
    /\ lastOp.hits = 1
    /\ Truthy(lastOp.cp)
    /\ \E i, j \in 1..Len(cart) :
         /\ i # j
         /\ SameKey(cart[i], lastOp) /\ SameKey(cart[j], lastOp)
         /\ cart[i].customPrice = lastOp.cp
         /\ cart[i].qty > lastOp.qty
         /\ Truthy(cart[j].customPrice)
         /\ cart[j].customPrice # lastOp.cp

\* C2: every cart line has qty >= 1 in every reachable state.
C2_QtyAtLeastOne == \A i \in 1..Len(cart) : cart[i].qty >= 1

\* The minus button has been pressed on a line and the line is at qty 1.
C2_Witness ==
    /\ lastOp.op = "SidebarMinus"
    /\ lastOp.qty = 1
    /\ \E i \in 1..Len(cart) : SameKey(cart[i], lastOp) /\ cart[i].qty = 1

RECURSIVE Without(_, _, _)
Without(c, id, unit) ==
    IF c = <<>> THEN <<>>
    ELSE IF Head(c).id = id /\ Head(c).unit = unit
         THEN Without(Tail(c), id, unit)
         ELSE <<Head(c)>> \o Without(Tail(c), id, unit)

\* C3: removeFromCart(id, unit) leaves exactly the lines that do not match
\* (id, unit), unchanged and in their order; when no line matches the cart is
\* unchanged.
C3_RemoveExact ==
    [][ lastOp'.op = "removeFromCart"
        => /\ cart' = Without(cart, lastOp'.id, lastOp'.unit)
           /\ \A i \in 1..Len(cart') : ~SameKey(cart'[i], lastOp')
           /\ (\A i \in 1..Len(cart) : ~SameKey(cart[i], lastOp'))
                => cart' = cart
      ]_vars

\* A removal has deleted a line and kept another line of the same product.
C3_Witness ==
    /\ lastOp.op = "removeFromCart"
    /\ lastOp.hits = 1
    /\ Len(cart) = 1
    /\ cart[1].id = lastOp.id
    /\ cart[1].unit # lastOp.unit

\* Sum of f over the lines of the cart, by index
RECURSIVE SumQtyUpTo(_)
SumQtyUpTo(n) == IF n = 0 THEN 0 ELSE SumQtyUpTo(n - 1) + cart[n].qty

RECURSIVE SumPriceUpTo(_)
SumPriceUpTo(n) ==
    IF n = 0 THEN R(0)
    ELSE RAdd(SumPriceUpTo(n - 1), RMul(cart[n].price, R(cart[n].qty)))

\* C9: in every reachable state the summary derived from the cart and the
\* tax mode has cartCount = sum of qty, subtotal = sum of price * qty,
\* tax = subtotal * 0.15 / 1.15 (inclusive) or subtotal * 0.15 (exclusive),
\* total = subtotal (inclusive) or subtotal + tax (exclusive); FloatingCart
\* shows the same values; one line of price 100 and qty 2 in exclusive mode
\* gives 200, 30 and 230.
C9_Summary ==
    LET s == useCartSummary(cart, taxMode)
        f == FloatingCartSummary(cart, taxMode)
    IN  /\ s.cartCount = SumQtyUpTo(Len(cart))
        /\ s.subtotal = SumPriceUpTo(Len(cart))
        /\ taxMode = "inclusive"
             => /\ RMul(s.tax, R(115)) = RMul(s.subtotal, R(15))
                /\ s.total = s.subtotal
        /\ taxMode = "exclusive"
             => /\ RMul(s.tax, R(100)) = RMul(s.subtotal, R(15))
                /\ s.total = RAdd(s.subtotal, s.tax)
        /\ f = [cartCount |-> s.cartCount, subtotal |-> s.subtotal,
                tax |-> s.tax, total |-> s.total]
        /\ (taxMode = "exclusive" /\ Len(cart) = 1 /\ cart[1].price = R(100)
            /\ cart[1].qty = 2)
             => s.subtotal = R(200) /\ s.tax = R(30) /\ s.total = R(230)

\* Exclusive mode, one line of price 100 and qty 2.
C9_Witness ==
    /\ taxMode = "exclusive"
    /\ Len(cart) = 1
    /\ cart[1].price = R(100)
    /\ cart[1].qty = 2

----------------------------------------------------------------------------
(* Properties of pricing (specification SpecPricing) *)

ProductOf(id) == CHOOSE p \in Products : p.id = id

\* The cache entries recorded for (product, branch, unit)
EntriesFor(cache, id, branch, unit) ==
    {cache[k] : k \in {x \in DOMAIN cache :
                         /\ cache[x].productId = id
                         /\ cache[x].branchId = branch
                         /\ cache[x].unit = unit}}

\* The catalog price of the unit: cartonPrice for CTN and piecePrice for PCS
\* when the product has one, else the base price
CatalogBase(p, unit) ==
    CASE unit = "CTN" /\ p.cartonPrice # Undefined -> p.cartonPrice
      [] unit = "PCS" /\ p.piecePrice # Undefined -> p.piecePrice
      [] OTHER -> p.price

\* The step is an addToCart that created a new line without a custom price
AddsPlainLine ==
    /\ lastOp'.op = "addToCart"
    /\ lastOp'.hits = 0
    /\ ~Truthy(lastOp'.cp)
    /\ Len(cart') = Len(cart) + 1

\* The step is an addToCart that created a new line with a custom price
AddsCustomLine ==
    /\ lastOp'.op = "addToCart"
    /\ lastOp'.hits = 0
    /\ Truthy(lastOp'.cp)
    /\ Len(cart') = Len(cart) + 1

\* C4: a new line without a custom price takes its price from the cache
\* entry for (product, selected branch, unit), with pricingSource lastSold
\* and the entry's date, when the strategy is lastSoldPrice, a branch is
\* selected and such an entry exists; otherwise from the catalog price of
\* the unit, with pricingSource default and no date.  A new line with a
\* custom price has that price.
C4_PriceSource ==
    [][ /\ AddsPlainLine =>
            LET line == cart'[Len(cart')]
                p == ProductOf(lastOp'.id)
                es == EntriesFor(lastSoldPrices, lastOp'.id, selectedBranch,
                                 lastOp'.unit)
                base == CatalogBase(p, lastOp'.unit)
            IN  IF pricingStrategy = "lastSoldPrice"
                   /\ selectedBranch # NoBranch /\ es # {}
                THEN \E e \in es :
                       /\ line.price \in {e.price, RMul(e.price, TaxFactor),
                                          RDiv(e.price, TaxFactor)}
                       /\ line.pricingSource = "lastSold"
                       /\ line.lastSoldDate = e.date
                ELSE /\ line.price \in {base, RMul(base, TaxFactor)}
                     /\ line.pricingSource = "default"
                     /\ line.lastSoldDate = NoDate
        /\ AddsCustomLine => cart'[Len(cart')].price = lastOp'.cp
      ]_vars

\* A plain carton of P1 has been added at its last-sold price in branch B1.
C4_Witness ==
    /\ lastOp.op = "addToCart"
    /\ lastOp.hits = 0
    /\ ~Truthy(lastOp.cp)
    /\ Len(cart) = 1
    /\ cart[1].id = "P1" /\ cart[1].unit = "CTN"
    /\ cart[1].pricingSource = "lastSold"
    /\ cart[1].lastSoldDate = "d2"
    /\ selectedBranch = "B1"

\* C5: the price of a new line is converted exactly when the tax mode of its
\* source differs from the mode in effect, and once: a last-sold price
\* stored exclusive is multiplied by 1.15 under inclusive mode, one stored
\* inclusive is divided by 1.15 under exclusive mode, one stored in the
\* current mode is unchanged; a catalog price (exclusive of tax) is
\* multiplied by 1.15 under inclusive mode only; a custom price is unchanged.
C5_TaxConversion ==
    [][ /\ (AddsPlainLine /\ cart'[Len(cart')].pricingSource = "lastSold") =>
            \E e \in EntriesFor(lastSoldPrices, lastOp'.id, selectedBranch,
                                lastOp'.unit) :
               LET price == cart'[Len(cart')].price
               IN  /\ e.taxMode = taxMode => price = e.price
                   /\ (e.taxMode = "exclusive" /\ taxMode = "inclusive")
                        => RMul(price, R(100)) = RMul(e.price, R(115))
                   /\ (e.taxMode = "inclusive" /\ taxMode = "exclusive")
                        => RMul(price, R(115)) = RMul(e.price, R(100))
        /\ (AddsPlainLine /\ cart'[Len(cart')].pricingSource = "default") =>
            LET price == cart'[Len(cart')].price
                base == CatalogBase(ProductOf(lastOp'.id), lastOp'.unit)
            IN  /\ taxMode = "exclusive" => price = base
                /\ taxMode = "inclusive"
                     => RMul(price, R(100)) = RMul(base, R(115))
        /\ AddsCustomLine => cart'[Len(cart')].price = lastOp'.cp
      ]_vars

\* Under exclusive mode a piece of P1 has been added at its last-sold price,
\* stored as 23 inclusive: the line's price is 20.
C5_Witness ==
    /\ lastOp.op = "addToCart"
    /\ lastOp.hits = 0
    /\ Len(cart) = 1
    /\ cart[1].id = "P1" /\ cart[1].unit = "PCS"
    /\ cart[1].pricingSource = "lastSold"
    /\ taxMode = "exclusive"
    /\ cart[1].price = R(20)

\* C6: right after every setSelectedBranch that changes the selected branch
\* (to another branch or to none) the last-sold-price cache is empty, and an
\* empty cache gets entries only when a fetch issued for the branch then
\* selected completes.
C6_BranchChangeEmptiesCache ==
    [][ /\ (lastOp'.op = "setSelectedBranch"
            /\ selectedBranch' # selectedBranch)
           => lastSoldPrices' = EmptyMap
        /\ (lastSoldPrices = EmptyMap /\ lastSoldPrices' # EmptyMap)
           => /\ lastOp'.op = "fetchResponse"
              /\ lastOp'.id = selectedBranch'
      ]_vars

\* C7: an addToCart that creates a new line with a custom price while a
\* branch is selected issues a save request for (product, selected branch,
\* unit, custom price, tax mode) when the custom price differs by more than
\* 0.01 from the price the non-custom calculation would have produced, and
\* issues none when the difference is at most 0.01.
C7_SaveWhenDifferent ==
    [][ (AddsCustomLine /\ selectedBranch # NoBranch) =>
          LET p == ProductOf(lastOp'.id)
              plain == LinePricing(p, lastOp'.unit, Undefined, pricingStrategy,
                                   selectedBranch, lastSoldPrices, taxMode).price
          IN  IF RGt(RAbs(RSub(lastOp'.cp, plain)), SaveTolerance)
              THEN saveRequests' =
                     Append(saveRequests,
                            [product_id |-> lastOp'.id,
                             branch_id |-> selectedBranch,
                             unit |-> lastOp'.unit, price |-> lastOp'.cp,
                             tax_mode |-> taxMode])
              ELSE saveRequests' = saveRequests
      ]_vars

----------------------------------------------------------------------------
(* Properties of the catalog read (specification SpecMirror) *)

\* The last read was decided after a successful sync, at an age below maxAge
\* and over a non-empty mirror
FreshRead ==
    /\ lastRead.result # "none"
    /\ lastRead.synced
    /\ lastRead.age < maxAge
    /\ lastRead.cached # {}

\* The last read was decided after a successful sync, at an age above maxAge
StaleRead ==
    /\ lastRead.result # "none"
    /\ lastRead.synced
    /\ lastRead.age > maxAge

\* C10 as stated: a read before t0 + T over a non-empty mirror returns the
\* mirrored data and issues no network request; a read after t0 + T issues a
\* network request.
C10_FreshReadIssuesNoRequest ==
    /\ FreshRead => /\ lastRead.result = "mirror"
                    /\ lastRead.data = lastRead.cached
                    /\ lastRead.requests = 0
    /\ StaleRead => lastRead.requests >= 1

\* C10, amended: a read before t0 + T over a non-empty mirror returns the
\* mirrored data without waiting for the network, and issues a network
\* request (the background sync) exactly when enableBackgroundSync is set; a
\* read after t0 + T issues one network request and waits for it.
C10_FreshReadDoesNotBlock ==
    /\ FreshRead => /\ lastRead.result = "mirror"
                    /\ lastRead.data = lastRead.cached
                    /\ ~lastRead.blocking
                    /\ lastRead.requests = IF enableBackgroundSync THEN 1 ELSE 0
    /\ StaleRead => /\ lastRead.requests = 1
                    /\ lastRead.blocking
                    /\ lastRead.result # "mirror"

\* With background sync enabled, a read of a non-empty mirror one minute
\* before maxAge has returned the mirror and started a background sync.
C10_Witness ==
    /\ FreshRead
    /\ enableBackgroundSync
    /\ lastRead.age = maxAge - 1
    /\ lastRead.result = "mirror"
    /\ lastRead.requests = 1

\* The step is the failure of the network fetch of the read in progress
ReadFetchFails ==
    /\ lastRead.result = "pending"
    /\ lastRead'.result \in {"fallback", "error"}

\* C11: when a read's network fetch fails over a non-empty mirror the read
\* returns the mirror's records to its callers with a warning, and the
\* mirror is unchanged; over an empty mirror the queryFn fails with the
\* error, and once its retries are used up so does the read.
C11_FailedReadFallsBack ==
    [][ ReadFetchFails =>
          /\ mirror' = mirror
          /\ \A k \in DOMAIN read : read[k].pc = "fetching" =>
               IF mirror # {}
               THEN /\ lastRead'.result = "fallback"
                    /\ lastRead'.data = mirror
                    /\ lastRead'.warned
                    /\ \A c \in read[k].callers :
                         delivered'[c] = [result |-> "fallback", data |-> mirror]
               ELSE /\ lastRead'.result = "error"
                    /\ ~lastRead'.warned
                    /\ read[k].attempt = Retries =>
                         \A c \in read[k].callers :
                            delivered'[c] = [result |-> "error", data |-> {}]
      ]_vars

\* A read over a stale, non-empty mirror has lost its fetch and returned the
\* mirror's records with a warning.
C11_Witness ==
    /\ lastRead.result = "fallback"
    /\ lastRead.synced
    /\ lastRead.cached # {}
    /\ lastRead.data = mirror
    /\ lastRead.warned
    /\ delivered["c1"] = [result |-> "fallback", data |-> mirror]

----------------------------------------------------------------------------
(* Properties of concurrent reads and forced syncs (specification SpecReads) *)

\* The network fetches in flight that a read is waiting for
ReadFetches(s) == {i \in 1..Len(s) : s[i].kind = "read"}

\* The callers whose read has not resolved
WaitingCallers(d) == {c \in DOMAIN d : d[c].result = "waiting"}

\* C12: reads of the collection are coalesced: at most one fetch that a read
\* waits for is in flight; a caller that reads while such a fetch is pending
\* issues no fetch; and when the fetch settles every caller waiting for the
\* collection gets the same result.
C12_ReadsCoalesced ==
    [][ /\ Cardinality(ReadFetches(syncs')) <= 1
        /\ (/\ ReadFetches(syncs) # {}
            /\ WaitingCallers(delivered') \ WaitingCallers(delivered) # {})
           => syncs' = syncs
        /\ (ReadFetches(syncs) # {} /\ ReadFetches(syncs') = {})
           => \A c1, c2 \in WaitingCallers(delivered) :
                 delivered'[c1] = delivered'[c2]
      ]_vars

\* Both callers read while one fetch was pending, and both got its records.
C12_Witness ==
    /\ lastRead.result = "network"
    /\ lastRead.data # {}
    /\ \A c \in Callers :
         delivered[c] = [result |-> "network", data |-> lastRead.data]
    /\ \A k \in DOMAIN read : read[k].pc = "idle"

\* The background syncs in flight
BackgroundFetches(s) == {i \in 1..Len(s) : s[i].kind = "background"}

\* The step settles a backgroundSyncProducts that forceSync started
ForcedSyncSettles ==
    /\ Cardinality(BackgroundFetches(syncs')) <
         Cardinality(BackgroundFetches(syncs))
    /\ lastSyncDone'.by = "forceSync"

\* C13: forceSync can always be called and issues a network fetch, stale
\* mirror or not; when the fetch succeeds the mirror contains the fetched
\* records and the collection of every subscriber is the fetched records;
\* when it fails the mirror and the subscribers' collection are unchanged,
\* the sync status is error and nothing reaches the callers of reads.
C13_ForceSync ==
    /\ []ENABLED ForceSync
    /\ [][ ForcedSyncSettles =>
             IF lastSyncDone'.outcome = "success"
             THEN /\ lastSyncDone'.items \subseteq mirror'
                  /\ \A c \in Callers :
                       queryData'[queryKey(c)] = lastSyncDone'.items
             ELSE /\ mirror' = mirror
                  /\ queryData' = queryData
                  /\ syncStatus' = "error"
                  /\ delivered' = delivered
         ]_vars

\* A forced sync started over a fresh, non-empty mirror has succeeded and
\* its records are what the subscribers see.
C13_Witness ==
    /\ lastSyncDone.by = "forceSync"
    /\ lastSyncDone.outcome = "success"
    /\ ~lastSyncDone.stale
    /\ lastSyncDone.items = {"P1", "P2"}
    /\ queryData[ProductsKey] = {"P1", "P2"}
    /\ mirror = {"P1", "P2"}
    /\ syncs = <<>>

----------------------------------------------------------------------------
(* The debounced search *)

\* A scheduled searchCallback runs in this step
ScanCommits == Len(scheduled') < Len(scheduled)

\* The scheduled scans of the current debounced query over the current index
PendingCurrentScans ==
    { i \in 1..Len(scheduled) :
        /\ scheduled[i].query = debouncedQuery
        /\ scheduled[i].collection = allProducts }

\* C14: only the scan triggered by the most recent debounced query and the
\* current index commits results: a searchCallback that writes the exposed
\* results was scheduled for the debounced query and the collection that
\* are current when it runs.
C14_OnlyCurrentScanCommits ==
    [][ ScanCommits => lastScan'.current ]_vars

\* C15: whenever the debounced query is blank the exposed results are empty
\* and isLoading is false, and isLoading is true while the scan for the
\* current query is still pending.
C15_LoadingWhilePending ==
    /\ trim(debouncedQuery) = <<>> => products = <<>> /\ ~isLoading
    /\ PendingCurrentScans # {} => isLoading

\* C16: the debounced value changes only to the input value, and only when
\* that has stayed unchanged for the full delay; an input change cancels
\* the pending update and restarts the timer for the new value; and once
\* the input stops changing the debounced value eventually equals it.
C16_Debounce ==
    /\ [][ debouncedQuery' # debouncedQuery
             => debouncedQuery' = query /\ unchangedFor >= delay ]_vars
    /\ [][ query' # query
             => /\ debouncedQuery' = debouncedQuery
                /\ handler' = [value |-> query', left |-> delay] ]_vars
    /\ \/ []<><<query' # query>>_vars
       \/ <>[](debouncedQuery = query)

\* The debounced value has followed the input to "a", and the input has
\* changed again since: its window is running.
C16_Witness ==
    /\ debouncedQuery = <<"a">>
    /\ query = <<"a", "b">>
    /\ handler = [value |-> <<"a", "b">>, left |-> 1]
    /\ unchangedFor = delay - 1

----------------------------------------------------------------------------
(* The status of the last-sold-price fetches *)

\* priceFetchingStatus.get(id)
StatusOf(status, id) == IF id \in DOMAIN status THEN status[id] ELSE "undefined"

\* fetchLastSoldPrices resumes after the answer to request i in this step
FetchCompletes(i) ==
    /\ i \in 1..Len(priceFetches)
    /\ priceFetches' = RemoveAt(priceFetches, i)

----------------------------------------------------------------------------
(* searchIndex *)

\* The sum of f over the set S
RECURSIVE RSum(_, _)
RSum(f, S) ==
    IF S = {} THEN R(0)
    ELSE LET x == CHOOSE y \in S : TRUE
         IN  RAdd(f[x], RSum(f, S \ {x}))

\* The words of a query: the pieces of the lowercased query between white
\* space
QueryWords(q) == filterBoolean(split(toLowerCase(q)))

\* The score of an entry for a query, as a sum over the (query word,
\* keyword) pairs
PairSumScore(entry, q) ==
    LET words == QueryWords(q)
        pairs == (1..Len(words)) \X (1..Len(entry.keywords))
        gain == [pr \in pairs |->
                   LET w == words[pr[1]]
                       k == entry.keywords[pr[2]]
                   IN  RAdd(IF includes(k, w)
                            THEN Rat(10 * Len(w), Len(k)) ELSE R(0),
                            IF startsWith(k, w) THEN R(20) ELSE R(0))]
    IN  RAdd(IF includes(entry.searchText, toLowerCase(q))
             THEN R(100) ELSE R(0),
             RSum(gain, pairs))

\* The index the last call of searchIndex scanned
ScannedIndex == createProductIndex(lastScan.collection)

\* C18: the score searchIndex computes for every entry it scans is 100 if
\* searchText contains the whole lowercased query (else 0), plus, for every
\* (query word, keyword) pair, 10 * len(query word) / len(keyword) if the
\* keyword contains the query word and a further 20 if the keyword starts
\* with it.
C18_Score ==
    /\ Len(lastScan.scores) = lastScan.visited
    /\ \A i \in 1..lastScan.visited :
          lastScan.scores[i] = PairSumScore(ScannedIndex[i], lastScan.query)

\* A scan of "ab" that has scored a prefix match (100 + 10 + 20) and a
\* substring match inside a longer keyword (100 + 20/3)
C18_Witness ==
    /\ lastScan.by = "call"
    /\ lastScan.query = <<"a", "b">>
    /\ \E i, j \in 1..lastScan.visited :
          /\ lastScan.scores[i] = R(130)
          /\ lastScan.scores[j] = Rat(320, 3)

\* The pair-sum score of every record's index entry for every query
ScoreTable ==
    [r \in SearchRecords, q \in Queries |->
        PairSumScore(createProductIndex(<<r>>)[1], q)]

\* The pair-sum score, for the query of the last call, of the entry at
\* position i of the collection it scanned
ScoreAt(i) == ScoreTable[lastScan.collection[i], lastScan.query]

\* The positions of the scanned collection whose entry scores above 0
PositiveEntries ==
    { i \in 1..Len(lastScan.collection) : RGt(ScoreAt(i), R(0)) }

\* The position in the scanned collection of a returned record
EntryOf(r) ==
    CHOOSE i \in 1..Len(lastScan.collection) : lastScan.collection[i] = r

ReturnedScore(n) == ScoreAt(EntryOf(lastScan.result[n]))

\* C19: searchIndex returns at most limit records, each an original record
\* of the collection whose index entry has a score greater than 0, ordered
\* by non-increasing score.
C19_Result ==
    /\ Len(lastScan.result) <= lastScan.limit
    /\ \A n \in 1..Len(lastScan.result) :
          /\ \E i \in 1..Len(lastScan.collection) :
                lastScan.collection[i] = lastScan.result[n]
          /\ EntryOf(lastScan.result[n]) \in PositiveEntries
    /\ \A n \in 1..(Len(lastScan.result) - 1) :
          ~RGt(ReturnedScore(n + 1), ReturnedScore(n))

\* A call with limit 2 that returned two records of different scores and
\* left a third matching record out
C19_Witness ==
    /\ lastScan.by = "call"
    /\ lastScan.limit = 2
    /\ Len(lastScan.result) = 2
    /\ RGt(ReturnedScore(1), ReturnedScore(2))
    /\ Cardinality(PositiveEntries) > 2

\* The position at which the scan stops: that of the (2 * limit)-th entry
\* with a positive score, or the end of the index
StoppingPoint ==
    LET upTo(n) == {i \in PositiveEntries : i <= n}
        full == { n \in 1..Len(lastScan.collection) :
                    Cardinality(upTo(n)) >= 2 * lastScan.limit }
    IN  IF full = {} THEN Len(lastScan.collection)
        ELSE CHOOSE n \in full : \A m \in full : n <= m

\* The positions of the records the last call returned
Returned == { EntryOf(lastScan.result[n]) : n \in 1..Len(lastScan.result) }

\* C20: the scan visits the entries in collection order and stops once
\* 2 * limit entries with a positive score have been collected; the result
\* is the top limit of the collected entries, and an entry after the
\* stopping point is never returned.
C20_EarlyExit ==
    trim(lastScan.query) # <<>> =>
        LET collected == {i \in PositiveEntries : i <= StoppingPoint}
        IN  /\ lastScan.visited = StoppingPoint
            /\ Returned \subseteq collected
            /\ Cardinality(Returned) = Len(lastScan.result)
            /\ Len(lastScan.result) =
                  IF Cardinality(collected) < lastScan.limit
                  THEN Cardinality(collected) ELSE lastScan.limit
            /\ \A i \in collected \ Returned : \A j \in Returned :
                  ~RGt(ScoreAt(i), ScoreAt(j))

\* A scan that stopped before the end of the index, and left behind the
\* stopping point an entry that scores higher than a returned one
C20_Witness ==
    /\ lastScan.by = "call"
    /\ lastScan.visited < Len(lastScan.collection)
    /\ \E i \in PositiveEntries : \E j \in Returned :
          /\ i > lastScan.visited
          /\ RGt(ScoreAt(i), ScoreAt(j))

\* The entry at position i of the scanned index has a keyword whose first
\* characters are the word w
HasPrefixKeyword(i, w) ==
    \E n \in 1..Len(ScannedIndex[i].keywords) :
        LET k == ScannedIndex[i].keywords[n]
        IN  Len(w) <= Len(k) /\ \A c \in 1..Len(w) : k[c] = w[c]

\* The number of keywords of the entry at position i that contain the word w
ContainingKeywords(i, w) ==
    Cardinality({ n \in 1..Len(ScannedIndex[i].keywords) :
                    includes(ScannedIndex[i].keywords[n], w) })

\* The last call had a query of one word
SingleWordQuery == Len(QueryWords(lastScan.query)) = 1

\* C21 as stated: for a single-word query, every scanned entry with a
\* keyword starting with the query word scores strictly higher than every
\* scanned entry without one.
C21_PrefixOutranks ==
    SingleWordQuery =>
        LET w == QueryWords(lastScan.query)[1]
        IN  \A i, j \in 1..lastScan.visited :
              HasPrefixKeyword(i, w) /\ ~HasPrefixKeyword(j, w)
              => RGt(lastScan.scores[i], lastScan.scores[j])

\* C21 amended: for a query that is one word with no white space around
\* it, every scanned entry with a keyword starting with the word scores
\* above 120, and strictly higher than every scanned entry that has no such
\* keyword and at most two keywords containing the word; so the latter are
\* never returned ahead of the former.
C21_PrefixOutranksFewSubstrings ==
    (SingleWordQuery /\ QueryWords(lastScan.query)[1] = lastScan.query) =>
        LET w == lastScan.query
            weak(j) == ~HasPrefixKeyword(j, w) /\ ContainingKeywords(j, w) <= 2
        IN  /\ \A i \in 1..lastScan.visited :
                  HasPrefixKeyword(i, w) => RGt(lastScan.scores[i], R(120))
            /\ \A i, j \in 1..lastScan.visited :
                  HasPrefixKeyword(i, w) /\ weak(j)
                  => RGt(lastScan.scores[i], lastScan.scores[j])
            /\ \A m, n \in 1..Len(lastScan.result) :
                  /\ HasPrefixKeyword(EntryOf(lastScan.result[n]), w)
                  /\ weak(EntryOf(lastScan.result[m]))
                  => n < m

\* A call for "a" that scanned an entry with no keyword starting with "a"
\* before one with such a keyword, and returned the latter first
C21_Witness ==
    /\ lastScan.by = "call"
    /\ lastScan.query = <<"a">>
    /\ lastScan.visited >= 2
    /\ ~HasPrefixKeyword(1, <<"a">>) /\ RGt(lastScan.scores[1], R(0))
    /\ HasPrefixKeyword(2, <<"a">>)
    /\ Len(lastScan.result) = 2
    /\ lastScan.result[1] = lastScan.collection[2]
    /\ lastScan.result[2] = lastScan.collection[1]

\* C22: a query that is empty or consists only of white space returns the
\* empty result for every index, without scanning any index entry.
C22_BlankQuery ==
    (lastScan.by = "call" /\ \A c \in 1..Len(lastScan.query) :
                                lastScan.query[c] = Space)
    => /\ lastScan.result = <<>>
       /\ lastScan.visited = 0
       /\ lastScan.scores = <<>>

\* A call with a query of one space over an index of five entries
C22_Witness ==
    /\ lastScan.by = "call"
    /\ lastScan.query = <<Space>>
    /\ Len(lastScan.collection) = Cardinality(SearchRecords)
    /\ lastScan.visited = 0
    /\ lastScan.result = <<>>

----------------------------------------------------------------------------
(* The mirror and its metadata *)

\* A backgroundSyncProducts gets its answer and calls productsCache.set
\* with it in this step
SyncSucceeds ==
    /\ Cardinality(BackgroundFetches(syncs')) < Cardinality(BackgroundFetches(syncs))
    /\ lastSyncDone'.outcome = "success"

\* C23: for any prior contents of the mirror, after set(collection, X)
\* getAll(collection) returns the records of X and no others.
C23_SetYieldsExactlyX ==
    [][ SyncSucceeds => mirror' = lastSyncDone'.items ]_vars

\* cacheManager.getSyncStatus('products').status: 'never' without metadata,
\* else the status of the metadata record, which setMetadata writes only
\* from productsCache.set, together with lastSync and always as 'synced'
getSyncStatus == IF lastSync = 0 THEN "never" ELSE "synced"

\* C24: the metadata status of the collection is syncing while a sync
\* attempt is running, error after an attempt whose fetch failed, and synced
\* only when no attempt is running and the latest one succeeded.
C24_MetadataFollowsAttempts ==
    /\ syncs # <<>> => getSyncStatus = "syncing"
    /\ (syncs = <<>> /\ lastSyncDone.outcome = "failure")
       => getSyncStatus = "error"
    /\ getSyncStatus = "synced"
       => syncs = <<>> /\ lastSyncDone.outcome # "failure"

----------------------------------------------------------------------------
(* Frames of the cart operations *)

\* C25: clearCart leaves the cart with no lines and the selected customer
\* unset, from any state, and changes nothing else: tax mode, selected
\* branch, pricing strategy and last-sold-price cache are unchanged.
C25_ClearCart ==
    [][ lastOp'.op = "clearCart"
        => /\ cart' = <<>>
           /\ selectedCustomer' = NoCustomer
           /\ UNCHANGED <<taxMode, selectedBranch, pricingStrategy,
                          lastSoldPrices>> ]_vars

\* clearCart has emptied a cart of one line (hits counts the lines it
\* removed) while a branch was selected, prices were cached and the tax
\* mode was inclusive
C25_Witness ==
    /\ lastOp.op = "clearCart"
    /\ lastOp.hits = 1
    /\ cart = <<>>
    /\ selectedCustomer = NoCustomer
    /\ selectedBranch = "B1"
    /\ taxMode = "inclusive"
    /\ pricingStrategy = "lastSoldPrice"
    /\ lastSoldPrices # EmptyMap

\* The sum of the quantities of the lines of a cart
RECURSIVE TotalQty(_)
TotalQty(c) == IF c = <<>> THEN 0 ELSE Head(c).qty + TotalQty(Tail(c))

\* C26: for any interleaving of addToCart calls with each other and with
\* the completions of asynchronous operations no addition is lost: every
\* addToCart raises the sum of the line quantities by the requested
\* quantity, and no other step of the interleaving changes the cart, so
\* the sum of line quantities equals the sum of all requested quantities.
C26_NoLostAddition ==
    [][ IF lastOp' # lastOp \/ cart' # cart
        THEN IF lastOp'.op = "addToCart"
             THEN TotalQty(cart') = TotalQty(cart) + lastOp'.qty
             ELSE cart' = cart
        ELSE cart' = cart ]_vars

\* Two lines that hold three pieces after additions made around a branch
\* change, a completed price fetch and a completed catalog sync
C26_Witness ==
    /\ lastOp.op = "addToCart"
    /\ Len(cart) = 2
    /\ TotalQty(cart) = 3
    /\ cart[1].customPrice = R(12)
    /\ cart[2].pricingSource = "lastSold"
    /\ lastSyncDone.outcome = "success"
    /\ priceFetches = <<>>

-----------------------------------------------------------------------------
(* The periodic check and the teardown of the mount *)

\* The step hands a request started by the interval's callback to the API
TimerSyncStarted ==
    /\ Len(syncs') = Len(syncs) + 1
    /\ syncs'[Len(syncs')].by = "timer"

\* C27: after the teardown of the mount the periodic timer starts no further
\* staleness check and triggers no further sync; while mounted with
\* background sync enabled, each check triggers a sync exactly when the
\* collection is stale.
C27_TimerStopsAtTeardown ==
    [][ /\ ~mounted => checking' <= checking
        /\ ~mounted => ~TimerSyncStarted
        /\ (mounted /\ enableBackgroundSync /\ checking' < checking)
              => (TimerSyncStarted <=> isStale(lastSync, now, maxAge)) ]_vars

-----------------------------------------------------------------------------
(* originalPrice of a new line *)

\* The step is an addToCart that appended a line
LineCreated ==
    /\ lastOp'.op = "addToCart"
    /\ Len(cart') = Len(cart) + 1

\* The price the active strategy computes for the added (product, unit) in
\* the present tax mode when no custom price is given
ComputedPrice ==
    LinePricing(ProductOf(lastOp'.id), lastOp'.unit, Undefined,
                pricingStrategy, selectedBranch, lastSoldPrices, taxMode).price

\* C28: every line created by addToCart has as originalPrice the price the
\* active pricing strategy computes for (product, unit, tax mode), also when
\* a custom price is supplied: price is then the custom price and
\* originalPrice the computed one.
C28_OriginalPriceIsComputed ==
    [][ LineCreated =>
          LET line == cart'[Len(cart')]
          IN  /\ line.originalPrice = ComputedPrice
              /\ Truthy(lastOp'.cp) => line.price = lastOp'.cp ]_vars

-----------------------------------------------------------------------------
(* updateCartItem as called by the cart UI for the line (id, unit) *)

\* The step is a call of handleUpdateQuantity(id, unit, delta)
LineUpdated ==
    /\ lastOp'.op = "HandleUpdateQuantity"
    /\ lastOp' # lastOp \/ cart' # cart

\* C29: updating a line through updateCartItem, as the cart UI does for the
\* line (id, unit), merges the given fields into that line only: every other
\* line, a line with the same product id and another unit or custom price
\* included, is unchanged.
C29_UpdateTouchesOneLine ==
    [][ LineUpdated =>
          LET k == FindLine(cart, lastOp'.id, lastOp'.unit)
          IN  /\ Len(cart') = Len(cart)
              /\ cart'[k] = [cart[k] EXCEPT !.qty = lastOp'.qty]
              /\ \A j \in 1..Len(cart) : j # k => cart'[j] = cart[j] ]_vars

-----------------------------------------------------------------------------
(* The pricing of a line over later additions *)

\* The pricing fields of a cart line
PricingOf(item) ==
    <<item.price, item.originalPrice, item.pricingSource, item.lastSoldDate>>

\* The step is an addToCart that merged into an existing line
LineMerged ==
    /\ lastOp'.op = "addToCart"
    /\ lastOp'.hits > 0
    /\ lastOp' # lastOp \/ cart' # cart

\* C30: when addToCart merges into an existing line only qty changes, and
\* price, originalPrice, pricingSource and lastSoldDate of a line stay as set
\* when the line was created, whatever happens to the tax mode, the pricing
\* strategy, the selected branch and the last-sold-price cache between the
\* additions.
C30_MergeKeepsPricing ==
    [][ /\ Len(cart') >= Len(cart)
        /\ \A i \in 1..Len(cart) : PricingOf(cart'[i]) = PricingOf(cart[i])
        /\ LineMerged =>
              /\ Len(cart') = Len(cart)
              /\ \A i \in 1..Len(cart) :
                    [cart'[i] EXCEPT !.qty = cart[i].qty] = cart[i] ]_vars

\* A merge has gone into a line whose price is no longer the one the present
\* settings would give a new line
C30_Witness ==
    /\ lastOp.op = "addToCart"
    /\ lastOp.hits > 0
    /\ \E i \in 1..Len(cart) :
          /\ MatchesLine(cart[i], ProductOf(lastOp.id), lastOp.unit, lastOp.cp)
          /\ cart[i].qty > lastOp.qty
          /\ PricingOf(cart[i]) #
                LET pr == LinePricing(ProductOf(lastOp.id), lastOp.unit,
                                      lastOp.cp, pricingStrategy,
                                      selectedBranch, lastSoldPrices, taxMode)
                IN  <<pr.price, pr.price, pr.pricingSource, pr.lastSoldDate>>

-----------------------------------------------------------------------------
(* The read at the boundary of maxAge *)

\* What the last read does once its fetch has resolved: the items are in the
\* mirror and are what the read returned
FetchedIsMirrored ==
    lastRead.result = "network" => lastRead.data \subseteq mirror

\* C31 as stated: a read blocks on the network exactly when the mirror is
\* empty or the age of the last sync is greater than or equal to maxAge; at
\* age exactly maxAge the read fetches, writes the result to the mirror and
\* returns it, and does not return the mirrored data.
C31_BlocksFromMaxAge ==
    lastRead.result # "none" =>
      /\ lastRead.blocking <=> \/ lastRead.cached = {}
                               \/ ~lastRead.synced
                               \/ lastRead.age >= maxAge
      /\ lastRead.blocking => lastRead.result # "mirror"
      /\ FetchedIsMirrored

\* C31, amended: a read blocks on the network exactly when the mirror is
\* empty, no sync is recorded or the age of the last sync is greater than
\* maxAge; at age exactly maxAge a read over a non-empty mirror returns the
\* mirrored data without waiting.
C31_BlocksAboveMaxAge ==
    lastRead.result # "none" =>
      /\ lastRead.blocking <=> \/ lastRead.cached = {}
                               \/ ~lastRead.synced
                               \/ lastRead.age > maxAge
      /\ lastRead.blocking => lastRead.result # "mirror"
      /\ ~lastRead.blocking => /\ lastRead.result = "mirror"
                               /\ lastRead.data = lastRead.cached
      /\ FetchedIsMirrored

\* A read of a non-empty mirror at age exactly maxAge has returned the mirror
C31_Witness ==
    /\ lastRead.synced
    /\ lastRead.age = maxAge
    /\ lastRead.cached # {}
    /\ lastRead.result = "mirror"
    /\ ~lastRead.blocking

-----------------------------------------------------------------------------
(* Fetches of last-sold prices in flight *)

\* C32: no two last-sold-price fetches that target the same product id are
\* in flight at the same time, and a fetch is not issued for a product whose
\* price-fetch status is loading, for any sequence of changes to the visible
\* products, the pricing strategy and the selected branch.
C32_NoDuplicateFetch ==
    [][ /\ \A i, j \in 1..Len(priceFetches') :
              i # j => priceFetches'[i].ids \cap priceFetches'[j].ids = {}
        /\ Len(priceFetches') > Len(priceFetches)
           => \A id \in priceFetches'[Len(priceFetches')].ids :
                 StatusOf(priceFetchingStatus, id) # "loading" ]_vars

-----------------------------------------------------------------------------
(* getBySearch of the IndexedDB mirrors *)

\* The record matches the query as a case-insensitive substring of one of
\* its searched fields
MatchesQuery(r, q) ==
    IF "contact_name" \in DOMAIN r
    THEN \/ includes(toLowerCase(r.contact_name), toLowerCase(q))
         \/ includes(toLowerCase(r.email), toLowerCase(q))
    ELSE \/ includes(toLowerCase(r.name), toLowerCase(q))
         \/ includes(toLowerCase(r.sku), toLowerCase(q))
         \/ includes(toLowerCase(r.group_name), toLowerCase(q))

\* C33: getBySearch(collection, query, limit) returns at most limit records
\* for every query, the empty and the whitespace-only query included, and
\* every returned record matches the query as a case-insensitive substring
\* of name, SKU or group (products) or of name or email (customers).
C33_GetBySearchCapped ==
    lastScan.by \in {"productsCache.getBySearch", "customersCache.getBySearch"}
    => /\ Len(lastScan.result) <= lastScan.limit
       /\ \A n \in 1..Len(lastScan.result) :
             MatchesQuery(lastScan.result[n], lastScan.query)

\* The records of the searched collection that match the query
MatchingRecords ==
    { i \in 1..Len(lastScan.collection) :
        MatchesQuery(lastScan.collection[i], lastScan.query) }

\* C33, amended: for a query that is not blank getBySearch returns at most
\* limit records, each matching the query as a case-insensitive substring of
\* a searched field, and as many as match up to the limit; for the empty and
\* the whitespace-only query it returns the whole collection, whatever the
\* limit.
C33_GetBySearchCappedUnlessBlank ==
    lastScan.by \in {"productsCache.getBySearch", "customersCache.getBySearch"}
    => IF trim(lastScan.query) = <<>>
       THEN lastScan.result = lastScan.collection
       ELSE /\ Len(lastScan.result) <= lastScan.limit
            /\ \A n \in 1..Len(lastScan.result) :
                  /\ MatchesQuery(lastScan.result[n], lastScan.query)
                  /\ \E i \in MatchingRecords :
                        lastScan.collection[i] = lastScan.result[n]
            /\ Len(lastScan.result) =
                  IF Cardinality(MatchingRecords) < lastScan.limit
                  THEN Cardinality(MatchingRecords) ELSE lastScan.limit

\* A search of the products with more matches than the limit has returned
\* limit records
C33_Witness ==
    /\ lastScan.by = "productsCache.getBySearch"
    /\ trim(lastScan.query) # <<>>
    /\ Cardinality(MatchingRecords) > lastScan.limit
    /\ Len(lastScan.result) = lastScan.limit

-----------------------------------------------------------------------------
(* The branch of the cached last-sold prices *)

\* C34: in every reachable state, also when a fetch or a save issued under
\* one branch completes after another branch has been selected, every entry
\* of the last-sold-price cache has the branchId of the selected branch.
C34_CacheOfSelectedBranch ==
    \A k \in DOMAIN lastSoldPrices : lastSoldPrices[k].branchId = selectedBranch

-----------------------------------------------------------------------------
(* Requests for the products collection in flight *)

\* C35: at most one network fetch of the collection is in flight at any
\* time, counting the blocking fetch of a read, the background refresh
\* started by a fresh read, the sync started by the periodic staleness timer
\* and forceSync.
C35_OneFetchInFlight == Len(syncs) <= 1

-----------------------------------------------------------------------------
(* The subscribers' collection and the mirror under overlapping syncs *)

\* C36: whenever no sync of the collection is in flight, the collection
\* held by the live subscribers equals the contents of the mirror as
\* written by the last completed sync, for every interleaving of
\* overlapping syncs with different answers.
C36_SubscribersMatchMirror ==
    (syncs = <<>> /\ lastSyncDone.outcome = "success")
    => queryData[ProductsKey] = mirror

-----------------------------------------------------------------------------
(* The cart over a checkout *)

\* The step is the answer to invoice request i
CheckoutAnswered(i) ==
    /\ i \in 1..Len(invoices)
    /\ invoices' = RemoveAt(invoices, i)
    /\ lastOp'.op = "checkoutResponse"

\* C37: every cart line removed by the clearCart that follows a successful
\* invoice creation was among the invoice's line items with the same
\* quantity, so a line added or changed while the request was in flight is
\* not discarded; when the creation fails the cart and the selected
\* customer are unchanged.
C37_CheckoutClearsInvoicedLines ==
    [][ \A i \in 1..Len(invoices) :
          CheckoutAnswered(i) =>
            IF lastOp'.unit = "success"
            THEN \A n \in 1..Len(cart) :
                    n > Len(cart') \/ cart'[n] # cart[n]
                    => \E m \in 1..Len(invoices[i].line_items) :
                          invoices[i].line_items[m] = LineItems(cart)[n]
            ELSE cart' = cart /\ selectedCustomer' = selectedCustomer ]_vars

-----------------------------------------------------------------------------
(* The merge key of the cart lines *)

\* (product id, unit, custom price) of a line
MergeKey(item) == <<item.id, item.unit, item.customPrice>>

\* C38: after any sequence of addToCart, removeFromCart, clearCart and
\* quantity-only updateCartItem calls, no two cart lines have the same
\* (product id, unit, custom price), an absent custom price counting as one
\* value.
C38_UniqueMergeKeys ==
    \A i, j \in 1..Len(cart) : i # j => MergeKey(cart[i]) # MergeKey(cart[j])

\* An addition has merged into one of two lines of the same product and unit
C38_Witness ==
    /\ lastOp.op = "addToCart"
    /\ lastOp.hits = 1
    /\ Len(cart) = 2
    /\ cart[1].id = cart[2].id
    /\ cart[1].unit = cart[2].unit
    /\ cart[1].customPrice # cart[2].customPrice

-----------------------------------------------------------------------------
(* The status map and the cache *)

\* C39: in every reachable state a product whose price-fetch status is
\* loaded has at least one last-sold-price cache entry for the selected
\* branch; the status map and the cache stay consistent across branch
\* changes, logout and clearLastSoldPrices.
C39_LoadedHasEntry ==
    \A id \in DOMAIN priceFetchingStatus :
        priceFetchingStatus[id] = "loaded"
        => \E k \in DOMAIN lastSoldPrices :
              /\ lastSoldPrices[k].productId = id
              /\ lastSoldPrices[k].branchId = selectedBranch

-----------------------------------------------------------------------------
(* The frame of setTaxMode *)

\* The step is a call of setTaxMode
TaxModeSet ==
    /\ lastOp'.op = "setTaxMode"
    /\ lastOp' # lastOp \/ taxMode' # taxMode

\* C40: setTaxMode changes only the tax mode: every cart line, with its
\* price, originalPrice and pricingSource, is unchanged, so the price of a
\* line stays as computed under the mode in effect when the line was added,
\* while the summary applies the formula of the new mode to it.
C40_SetTaxModeFrame ==
    [][ TaxModeSet =>
          /\ taxMode' = lastOp'.id
          /\ cart' = cart
          /\ UNCHANGED <<selectedCustomer, selectedBranch, pricingStrategy,
                         lastSoldPrices, priceFetchingStatus, priceFetches,
                         saveRequests, invoices>>
          /\ UNCHANGED <<mirrorVars, searchVars>>
          /\ LET before == useCartSummary(cart, taxMode)
                 after == useCartSummary(cart', taxMode')
             IN  /\ after.cartCount = before.cartCount
                 /\ after.subtotal = before.subtotal
                 /\ IF taxMode' = "inclusive"
                    THEN /\ RMul(after.tax, R(115)) = RMul(after.subtotal, R(15))
                         /\ after.total = after.subtotal
                    ELSE /\ RMul(after.tax, R(100)) = RMul(after.subtotal, R(15))
                         /\ after.total = RAdd(after.subtotal, after.tax) ]_vars

\* The mode has been set to inclusive over a cart with a plain line priced
\* under the exclusive mode
C40_Witness ==
    /\ lastOp.op = "setTaxMode"
    /\ taxMode = "inclusive"
    /\ \E i \in 1..Len(cart) :
          /\ ~Truthy(cart[i].customPrice)
          /\ cart[i].price = CatalogPrice(ProductOf(cart[i].id), cart[i].unit)

====
